---- MODULE Spec2Model ----
(***************************************************************************)
(* Model of the STM32 OTGv1 USB low level driver (STM32/OTGv1/usb_lld.c):  *)
(* the FIFO RAM allocator and endpoint configuration, the FIFO packet      *)
(* transfer primitives, the transmit fill engine, the pump thread, the     *)
(* interrupt handler and the receive dispatcher.                           *)
(***************************************************************************)
EXTENDS Integers, Sequences, FiniteSets, TLC

VARIABLES
  \* ---- driver and controller state used by endpoint configuration ----
  pmnext,      \* usbp->pmnext, next free word of the FIFO RAM (uint32_t)
  halted,      \* TRUE once chDbgAssert has stopped the system
  epc,         \* usbp->epc[ep], endpoint configuration or NULL
  DIEPTXF,     \* TX FIFO registers: [0] is DIEPTXF0, [ep] is DIEPTXF[ep-1]
  DIEPCTL,     \* OTG->ie[ep].DIEPCTL
  DOEPCTL,     \* OTG->oe[ep].DOEPCTL
  DAINTMSK,    \* OTG->DAINTMSK as a set of <<direction, ep>> bits
  allocLog,    \* history: what otg_ram_alloc returned since the last reset
  \* ---- queues, buffers and the FIFO data port ----
  oq,          \* the OutputQueue a transmission fetches from
  iq,          \* the InputQueue a reception stores into
  fifo,        \* words written to the FIFO data register and not yet read back
  rxmem,       \* memory starting at the linear receive buffer
  job,         \* the transfer under way: its length, stage, start cursors, streaks
  rxlog,       \* history: what the reception popped and stored
  woken,       \* history: threads made ready by chSchReadyI, in order
  \* ---- transmission: driver, pump thread and controller ----
  state,       \* usbp->state
  in_state,    \* usbp->epc[ep]->in_state: txqueued, txsize, txcnt, txbuf
  txpending,   \* usbp->txpending as a set of endpoints
  thd_wait,    \* usbp->thd_wait: NULL or the pump thread
  pump,        \* the pump thread: where it is, its ep and its done
  GAHBCFG,     \* OTG->GAHBCFG as a set of bits
  GINTMSK,     \* OTG->GINTMSK as a set of bits
  GINTSTS,     \* OTG->GINTSTS as a set of bits
  DIEPMSK,     \* OTG->DIEPMSK as a set of bits
  DIEPEMPMSK,  \* OTG->DIEPEMPMSK as a set of endpoints
  DIEPINT,     \* OTG->ie[ep].DIEPINT as a set of bits
  DIEPTSIZ,    \* OTG->ie[ep].DIEPTSIZ: PKTCNT and XFRSIZ
  pushes,      \* history: the packets pushed for the current transfer of ep
  inCb,        \* history: endpoints whose IN callback was invoked, in order
  fillret,     \* history: what otg_txfifo_handler last returned in this transfer
  txroom,      \* the room the hardware reports in the TX FIFOs
  xfer,        \* per endpoint: "idle", "prepared", or "started" (transmitting)
  nxfer,       \* history: number of transmissions prepared so far
  \* ---- reception, FIFO accesses, stop and start ----
  rxq,         \* the receive status entries the RX FIFO holds, oldest first
  out_state,   \* usbp->epc[ep]->out_state: rxqueued, rxsize, rxcnt, rxbuf
  setup_buf,   \* usbp->epc[ep]->setup_buf of endpoint 0
  DOEPINT,     \* OTG->oe[ep].DOEPINT as a set of bits
  DOEPMSK,     \* OTG->DOEPMSK as a set of bits
  outCb,       \* history: setup and OUT callbacks invoked, in order
  nrx,         \* history: number of packets received so far
  ncycle,      \* history: number of stops so far
  fifoBusy,    \* the FIFO push or pop sequences begun and not yet ended
  acc          \* history: accesses to shared driver state made by the last step

allocVars == <<pmnext, halted, epc, DIEPTXF, DIEPCTL, DOEPCTL, DAINTMSK, allocLog>>
fifoVars == <<oq, iq, fifo, rxmem, job, rxlog, woken>>

fillVars == <<state, in_state, txpending, thd_wait, pump, GAHBCFG, GINTMSK,
              GINTSTS, DIEPMSK, DIEPEMPMSK, DIEPINT, DIEPTSIZ, pushes, inCb,
              fillret, txroom, xfer, nxfer, rxq, out_state, setup_buf, DOEPINT,
              DOEPMSK, outCb, nrx, ncycle, fifoBusy, acc>>

rxVars == <<rxq, out_state, setup_buf, DOEPINT, DOEPMSK, outCb, nrx, ncycle>>

vars == <<allocVars, fifoVars, fillVars>>

\* A pointer is the empty sequence (NULL) or the one-element sequence <<object>>.
NULL == <<>>
Ptr(x) == <<x>>
Deref(p) == p[1]

(***************************************************************************)
(* Program constants.                                                      *)
(***************************************************************************)
\* Highest endpoint number; the handlers serve endpoints 0..3.
USB_MAX_ENDPOINTS == 3
\* Size of the FIFO RAM in words (1.25KB on the OTG_FS cell).
STM32_OTG_FIFO_MEM_SIZE == 320
\* Size of the receive FIFO in bytes (the driver's default setting).
STM32_USB_OTG1_RX_FIFO_SIZE == 512
Endpoints == 0..USB_MAX_ENDPOINTS

(***************************************************************************)
(* Bounds of the model.                                                    *)
(***************************************************************************)
\* Most otg_ram_alloc calls followed within one activation cycle.
MaxAllocs == 3
\* Highest endpoint number handed to usb_lld_init_endpoint.
MaxInitEp == 2
\* Largest queue buffer, in bytes.
MaxCap == 10
\* Largest transmission, in bytes.
MaxTx == 130
\* Most transmissions prepared in one behaviour.
MaxXfers == 1
\* Size in bytes of the buffer of the output queue a transmission fetches from.
TxQueueCap == 16
\* Most packets received in one behaviour.
MaxRx == 1
\* Most stops of the driver in one behaviour.
MaxCycles == 1

(***************************************************************************)
(* Endpoint configurations (USBEndpointConfig).                            *)
(***************************************************************************)
Cfg(mode, in, out, insize, outsize, mult) ==
  [ep_mode |-> mode, in_cb |-> in, out_cb |-> out,
   in_maxsize |-> insize, out_maxsize |-> outsize, in_multiplier |-> mult]

ep0config == Cfg("CTRL", TRUE, TRUE, 64, 64, 1)

\* The descriptors the upper layer hands to usb_lld_init_endpoint.
EpConfigs ==
  { Cfg("BULK", TRUE,  FALSE, 64,  64, 2),
    Cfg("INTR", TRUE,  FALSE, 2,   64, 1),
    Cfg("ISOC", TRUE,  TRUE,  512, 64, 0),
    Cfg("BULK", FALSE, TRUE,  64,  64, 1) }

(***************************************************************************)
(* FIFO RAM allocator.                                                     *)
(***************************************************************************)
\* chDbgAssert(c, ...): the system is stopped when c does not hold.
chDbgAssert(c) == c

otg_ram_reset == STM32_USB_OTG1_RX_FIFO_SIZE \div 4

\* A plausible slip: the capacity check is left out.
otg_ram_alloc_unchecked(pm, size) ==
  [next |-> pm, pmnext |-> pm + size, ok |-> TRUE]

\* A plausible slip: the block is returned but the allocator does not advance.
otg_ram_alloc_stuck(pm, size) ==
  [next |-> pm, pmnext |-> pm,
   ok |-> chDbgAssert(pm <= STM32_OTG_FIFO_MEM_SIZE)]

\* A plausible slip: the allocator starts at word zero, not after the RX FIFO.
otg_ram_alloc_zero_based(pm, size) ==
  [next |-> pm - otg_ram_reset, pmnext |-> pm + size,
   ok |-> chDbgAssert(pm + size <= STM32_OTG_FIFO_MEM_SIZE)]

\* otg_ram_alloc: next is the value returned, pmnext the new usbp->pmnext,
\* ok whether the assertion held (the value is returned only then).
otg_ram_alloc(pm, size) ==
  [next |-> pm, pmnext |-> pm + size,
   ok |-> chDbgAssert(pm + size <= STM32_OTG_FIFO_MEM_SIZE)]

(***************************************************************************)
(* Registers.                                                              *)
(***************************************************************************)
\* Reset value 0x02000400 of a DIEPTXF register.
DIEPTXF_RESET == [INEPTXSA |-> 1024, INEPTXFD |-> 512]

\* An endpoint control register with every field clear.
EPCTL_ZERO == [USBAEP |-> FALSE, EPENA |-> FALSE, SNAK |-> FALSE,
               EPTYP |-> "CTRL", TXFNUM |-> 0, MPSIZ |-> 0]

\* The ctl value built by the switch on the endpoint type.
EpCtl(mode) == [EPCTL_ZERO EXCEPT !.USBAEP = TRUE, !.EPTYP = mode]

IEPM(ep) == <<"IN", ep>>
OEPM(ep) == <<"OUT", ep>>

(***************************************************************************)
(* usb_lld_reset.                                                          *)
(***************************************************************************)
usb_lld_reset ==
  /\ UNCHANGED <<fifoVars, fillVars>>
  /\ ~halted
  /\ LET a == otg_ram_alloc(otg_ram_reset, ep0config.in_maxsize \div 4)
     IN /\ pmnext' = a.pmnext
        /\ halted' = ~a.ok
        /\ epc' = [epc EXCEPT ![0] = Ptr(ep0config)]
        /\ DAINTMSK' = {OEPM(0), IEPM(0)}
        /\ DOEPCTL' = [i \in Endpoints |->
             IF i = 0 THEN [EpCtl("CTRL") EXCEPT !.MPSIZ = ep0config.out_maxsize]
                      ELSE [EPCTL_ZERO EXCEPT !.SNAK = TRUE]]
        /\ DIEPCTL' = [i \in Endpoints |->
             IF i = 0 THEN [EpCtl("CTRL") EXCEPT !.MPSIZ = ep0config.in_maxsize,
                                                 !.TXFNUM = 0]
                      ELSE [EPCTL_ZERO EXCEPT !.SNAK = TRUE]]
        /\ IF a.ok
           THEN /\ DIEPTXF' = [DIEPTXF EXCEPT ![0] =
                      [INEPTXSA |-> a.next,
                       INEPTXFD |-> ep0config.in_maxsize \div 4]]
                /\ allocLog' = <<[next |-> a.next,
                                  size |-> ep0config.in_maxsize \div 4]>>
           ELSE /\ DIEPTXF' = DIEPTXF
                /\ allocLog' = <<>>

(***************************************************************************)
(* usb_lld_init_endpoint.                                                  *)
(***************************************************************************)
\* An fsize in bytes: the division by 4 is left out.
InFifoSize_in_bytes(cfg) ==
  IF cfg.in_multiplier > 1
  THEN cfg.in_maxsize * cfg.in_multiplier
  ELSE cfg.in_maxsize

\* fsize as computed for the IN endpoint.
InFifoSize(cfg) ==
  IF cfg.in_multiplier > 1
  THEN (cfg.in_maxsize \div 4) * cfg.in_multiplier
  ELSE cfg.in_maxsize \div 4

\* The OUT half: activation or deactivation of the OUT endpoint.
InitEndpointOutCtl(ep, cfg) ==
  IF cfg.out_cb
  THEN [DOEPCTL EXCEPT ![ep] =
          [EpCtl(cfg.ep_mode) EXCEPT !.MPSIZ = cfg.out_maxsize]]
  ELSE [DOEPCTL EXCEPT ![ep].USBAEP = FALSE]

\* An OUT half that never takes the endpoint out of the interrupt mask.
InitEndpointOutMask_never_removes(ep, cfg) ==
  IF cfg.out_cb THEN DAINTMSK \cup {OEPM(ep)} ELSE DAINTMSK

InitEndpointOutMask(ep, cfg) ==
  IF cfg.out_cb THEN DAINTMSK \cup {OEPM(ep)} ELSE DAINTMSK \ {OEPM(ep)}

\* The OUT half runs first; the IN half allocates the TX FIFO, and nothing
\* after otg_ram_alloc runs when its assertion stops the system.
usb_lld_init_endpoint(ep, cfg) ==
  /\ UNCHANGED <<fifoVars, fillVars>>
  /\ ~halted
  /\ epc[0] # NULL
  /\ ep \in 1..USB_MAX_ENDPOINTS
  /\ epc' = [epc EXCEPT ![ep] = Ptr(cfg)]
  /\ DOEPCTL' = InitEndpointOutCtl(ep, cfg)
  /\ IF cfg.in_cb
     THEN /\ Len(allocLog) < MaxAllocs
          /\ LET fsize == InFifoSize(cfg)
                 a == otg_ram_alloc(pmnext, fsize)
             IN /\ pmnext' = a.pmnext
                /\ halted' = ~a.ok
                /\ IF a.ok
                   THEN /\ DIEPTXF' = [DIEPTXF EXCEPT ![ep] =
                              [INEPTXSA |-> a.next, INEPTXFD |-> fsize]]
                        /\ DIEPCTL' = [DIEPCTL EXCEPT ![ep] =
                              [EpCtl(cfg.ep_mode) EXCEPT !.TXFNUM = ep,
                                                         !.MPSIZ = cfg.in_maxsize]]
                        /\ DAINTMSK' = InitEndpointOutMask(ep, cfg) \cup {IEPM(ep)}
                        /\ allocLog' = Append(allocLog,
                                              [next |-> a.next, size |-> fsize])
                   ELSE /\ DAINTMSK' = InitEndpointOutMask(ep, cfg)
                        /\ UNCHANGED <<DIEPTXF, DIEPCTL, allocLog>>
     ELSE /\ DIEPTXF' = [DIEPTXF EXCEPT ![ep] = DIEPTXF_RESET]
          /\ DIEPCTL' = [DIEPCTL EXCEPT ![ep].USBAEP = FALSE]
          /\ DAINTMSK' = InitEndpointOutMask(ep, cfg) \ {IEPM(ep)}
          /\ UNCHANGED <<pmnext, halted, allocLog>>

(***************************************************************************)
(* usb_lld_disable_endpoints.                                              *)
(***************************************************************************)
\* A loop over the endpoints that is not followed by the write of DAINTMSK.
otg_disable_ep_keeps_mask ==
  /\ DIEPCTL' = [i \in Endpoints |-> EPCTL_ZERO]
  /\ DOEPCTL' = [i \in Endpoints |-> EPCTL_ZERO]
  /\ DAINTMSK' = DAINTMSK

otg_disable_ep ==
  /\ DIEPCTL' = [i \in Endpoints |-> EPCTL_ZERO]
  /\ DOEPCTL' = [i \in Endpoints |-> EPCTL_ZERO]
  /\ DAINTMSK' = {OEPM(0), IEPM(0)}

usb_lld_disable_endpoints ==
  /\ ~halted
  /\ epc[0] # NULL
  /\ pmnext' = otg_ram_reset
  /\ allocLog' = <<>>
  /\ otg_disable_ep
  /\ UNCHANGED <<halted, epc, DIEPTXF, fifoVars, fillVars>>

(***************************************************************************)
(* Bytes, words and queues.                                                *)
(*                                                                         *)
(* A 32 bit word is the tuple of its four bytes, least significant first   *)
(* (the LSB-first memory organization the driver relies on): byte i of w,  *)
(* (uint8_t)(w >> (i * 8)), is w[i + 1].  A pointer into a buffer is its   *)
(* offset from the start of the buffer: q_buffer is 0 and q_top is the     *)
(* length of the buffer.                                                   *)
(***************************************************************************)
ZeroWord == <<0, 0, 0, 0>>

\* The byte at offset p of memory mem; what lies beyond the modelled memory
\* reads as 0 and is not stored to.
ByteAt(mem, p) == IF p + 1 \in DOMAIN mem THEN mem[p + 1] ELSE 0

\* *((uint32_t *)buf): the unaligned word access at offset p.
LoadWord(mem, p) ==
  <<ByteAt(mem, p), ByteAt(mem, p + 1), ByteAt(mem, p + 2), ByteAt(mem, p + 3)>>

\* *((uint32_t *)buf) = w at offset p.
StoreWord(mem, p, w) ==
  [i \in 1..Len(mem) |-> IF i - 1 \in p..(p + 3) THEN w[i - p] ELSE mem[i]]

\* *ptr = b at offset p.
StoreByte(mem, p, b) == [i \in 1..Len(mem) |-> IF i = p + 1 THEN b ELSE mem[i]]

\* otg_do_push: the n words pushed from offset p on; the pointer returned is
\* p + 4 * n.
otg_do_push(mem, p, n) == [k \in 1..n |-> LoadWord(mem, p + 4 * (k - 1))]

\* otg_do_pop: memory after n words of f are stored from offset p on.
RECURSIVE otg_do_pop(_, _, _, _)
otg_do_pop(f, mem, p, n) ==
  IF n = 0 THEN mem
  ELSE otg_do_pop(Tail(f), StoreWord(mem, p, Head(f)), p + 4, n - 1)

\* The first n elements of f removed.
RECURSIVE Drop(_, _)
Drop(f, n) == IF n = 0 \/ f = <<>> THEN f ELSE Drop(Tail(f), n - 1)

\* Reading the data register: the oldest word, or an arbitrary word when the
\* FIFO holds none.
ReadFifo(f) == IF f = <<>> THEN ZeroWord ELSE Head(f)

\* streak = nw <= nw2end ? nw : nw2end, taken without the bound.
Streak_unbounded(nw, nw2end) == nw

\* streak = nw <= nw2end ? nw : nw2end
Streak(nw, nw2end) == IF nw <= nw2end THEN nw ELSE nw2end

\* if (ptr >= q_top) ptr = q_buffer
WrapPtr(ptr, top) == IF ptr >= top THEN 0 ELSE ptr

\* w |= byte << (i * 8), shifted from the most significant end.
PackByte_msb_first(w, i, b) == [w EXCEPT ![4 - i] = b]

\* w |= byte << (i * 8), for a w whose byte i is still clear.
PackByte(w, i, b) == [w EXCEPT ![i + 1] = b]

\* (uint8_t)(w >> (i * 8))
UnpackByte(w, i) == w[i + 1]

\* A queue update that is skipped when no byte was moved.
QueueUpdate_skips_empty(q, n) ==
  IF n = 0 THEN q ELSE [q EXCEPT !.q_counter = q.q_counter + n, !.q_waiting = <<>>]

\* "Updating queue": the counter grows by n and every waiting thread is made
\* ready.
QueueUpdate(q, n) == [q EXCEPT !.q_counter = q.q_counter + n, !.q_waiting = <<>>]

(***************************************************************************)
(* otg_fifo_write_from_queue.                                              *)
(***************************************************************************)
\* The "one byte at time" loop: w and the read pointer after it.
RECURSIVE WriteBytes(_, _, _, _, _)
WriteBytes(q, rd, ntogo, i, w) ==
  IF ntogo > 0 /\ i < 4
  THEN WriteBytes(q, WrapPtr(rd + 1, Len(q.q_buffer)), ntogo - 1, i + 1,
                  PackByte(w, i, ByteAt(q.q_buffer, rd)))
  ELSE [w |-> w, rd |-> rd, ntogo |-> ntogo]

\* The streaks of a transfer with one more streak of n words, when n > 0.
AddStreak(streaks, n) == IF n > 0 THEN Append(streaks, n) ELSE streaks

\* The main loop: out is what has been pushed so far, streaks the numbers
\* of words pushed by the calls of otg_do_push so far.
RECURSIVE WriteLoop(_, _, _, _, _)
WriteLoop(q, rd, ntogo, out, streaks) ==
  IF ntogo > 0
  THEN LET nw == ntogo \div 4
           nw2end == (Len(q.q_buffer) - rd) \div 4
           streak == IF nw > 0 THEN Streak(nw, nw2end) ELSE 0
           ntogo1 == ntogo - streak * 4
           out1 == out \o otg_do_push(q.q_buffer, rd, streak)
           rd1 == rd + 4 * streak
           streaks1 == AddStreak(streaks, streak)
       IN IF nw > 0 /\ rd1 >= Len(q.q_buffer)
          THEN WriteLoop(q, 0, ntogo1, out1, streaks1)
          ELSE IF ntogo1 <= 0
               THEN [rd |-> rd1, out |-> out1, streaks |-> streaks1]
               ELSE LET b == WriteBytes(q, rd1, ntogo1, 0, ZeroWord)
                    IN WriteLoop(q, b.rd, b.ntogo, Append(out1, b.w), streaks1)
  ELSE [rd |-> rd, out |-> out, streaks |-> streaks]

\* The queue afterwards, the words pushed and the streaks they were pushed
\* in.
otg_fifo_write_from_queue(q, n) ==
  LET r == WriteLoop(q, q.q_rdptr, n, <<>>, <<>>)
  IN [q |-> QueueUpdate([q EXCEPT !.q_rdptr = r.rd], n), out |-> r.out,
      streaks |-> r.streaks]

\* otg_fifo_write_from_buffer: the number of words pushed.
otg_fifo_write_from_buffer(n) == (n + 3) \div 4

(***************************************************************************)
(* otg_fifo_read_to_queue.                                                 *)
(***************************************************************************)
\* The "one byte at time" loop: the buffer and the write pointer after it.
RECURSIVE ReadBytes(_, _, _, _, _)
ReadBytes(buf, wr, ntogo, i, w) ==
  IF ntogo > 0 /\ i < 4
  THEN ReadBytes(StoreByte(buf, wr, UnpackByte(w, i)),
                 WrapPtr(wr + 1, Len(buf)), ntogo - 1, i + 1, w)
  ELSE [buf |-> buf, wr |-> wr, ntogo |-> ntogo]

\* The main loop: f is what is left in the FIFO, pops counts the reads of
\* the data register, streaks are the numbers of words popped by the calls
\* of otg_do_pop so far.
RECURSIVE ReadLoop(_, _, _, _, _, _)
ReadLoop(buf, wr, ntogo, f, pops, streaks) ==
  IF ntogo > 0
  THEN LET nw == ntogo \div 4
           nw2end == (wr - wr) \div 4
           streak == IF nw > 0 THEN Streak(nw, nw2end) ELSE 0
           ntogo1 == ntogo - streak * 4
           buf1 == otg_do_pop(f, buf, wr, streak)
           f1 == Drop(f, streak)
           wr1 == wr + 4 * streak
           streaks1 == AddStreak(streaks, streak)
       IN IF nw > 0 /\ wr1 >= Len(buf)
          THEN ReadLoop(buf1, 0, ntogo1, f1, pops + streak, streaks1)
          ELSE IF ntogo1 <= 0
               THEN [buf |-> buf1, wr |-> wr1, f |-> f1, pops |-> pops + streak,
                     streaks |-> streaks1]
               ELSE LET b == ReadBytes(buf1, wr1, ntogo1, 0, ReadFifo(f1))
                    IN ReadLoop(b.buf, b.wr, b.ntogo, Drop(f1, 1),
                                pops + streak + 1, streaks1)
  ELSE [buf |-> buf, wr |-> wr, f |-> f, pops |-> pops, streaks |-> streaks]

\* The queue afterwards, what is left in the FIFO, the number of words
\* popped and the streaks among them.
otg_fifo_read_to_queue(q, n, f) ==
  LET r == ReadLoop(q.q_buffer, q.q_wrptr, n, f, 0, <<>>)
  IN [q |-> QueueUpdate([q EXCEPT !.q_buffer = r.buf, !.q_wrptr = r.wr], n),
      f |-> r.f, pops |-> r.pops, streaks |-> r.streaks]

(***************************************************************************)
(* otg_fifo_read_to_buffer.                                                *)
(***************************************************************************)
\* The loop over the words: n and max are counts of words here, p is buf,
\* stored the offsets written so far and pops the words read so far.
RECURSIVE ReadToBufferLoop(_, _, _, _, _, _, _)
ReadToBufferLoop(mem, p, n, max, f, stored, pops) ==
  IF n > 0
  THEN IF max > 0
       THEN ReadToBufferLoop(StoreWord(mem, p, ReadFifo(f)), p + 4, n - 1,
                             max - 1, Drop(f, 1), stored \cup p..(p + 3),
                             pops + 1)
       ELSE ReadToBufferLoop(mem, p, n - 1, max, Drop(f, 1), stored, pops + 1)
  ELSE [mem |-> mem, f |-> f, stored |-> stored, pops |-> pops]

\* A read that stores every word it pops, whatever max is.
otg_fifo_read_to_buffer_uncapped(mem, n, max, f) ==
  ReadToBufferLoop(mem, 0, (n + 3) \div 4, (n + 3) \div 4, f, {}, 0)

\* Memory afterwards, what is left in the FIFO, the offsets stored to and the
\* number of words popped; buf is offset 0 of mem.
otg_fifo_read_to_buffer(mem, n, max, f) ==
  ReadToBufferLoop(mem, 0, (n + 3) \div 4, (max + 3) \div 4, f, {}, 0)

\* The values of the transmission variables after usb_lld_init: the driver
\* is stopped and the pump thread does not exist yet.
AllocIdleWith(cfgs) ==
  /\ pmnext = 0
  /\ halted = FALSE
  /\ epc = cfgs
  /\ DIEPTXF = [i \in Endpoints |-> DIEPTXF_RESET]
  /\ DIEPCTL = [i \in Endpoints |-> EPCTL_ZERO]
  /\ DOEPCTL = [i \in Endpoints |-> EPCTL_ZERO]
  /\ DAINTMSK = {}
  /\ allocLog = <<>>

AllocIdle == AllocIdleWith([i \in Endpoints |-> NULL])

FillIdleWith(q, os) ==
  /\ state = "USB_STOP"
  /\ in_state = [ep \in Endpoints |->
                   [txqueued |-> FALSE, txsize |-> 0, txcnt |-> 0, txbuf |-> 0]]
  /\ txpending = {}
  /\ thd_wait = NULL
  /\ pump = [pc |-> "none", ep |-> 0, done |-> FALSE, n |-> 0, fsav |-> 0,
             basepri |-> 0, sts |-> NULL, resumes |-> 0, res |-> [ep \in Endpoints |-> "none"]]
  /\ GAHBCFG = {}
  /\ GINTMSK = {}
  /\ GINTSTS = {}
  /\ DIEPMSK = {}
  /\ DIEPEMPMSK = {}
  /\ DIEPINT = [ep \in Endpoints |-> {}]
  /\ DIEPTSIZ = [ep \in Endpoints |-> [PKTCNT |-> 0, XFRSIZ |-> 0]]
  /\ pushes = [ep \in Endpoints |-> <<>>]
  /\ inCb = <<>>
  /\ fillret = NULL
  /\ txroom = "any"
  /\ xfer = [ep \in Endpoints |-> "idle"]
  /\ nxfer = 0
  /\ rxq = q
  /\ out_state = os
  /\ setup_buf = [i \in 1..8 |-> 0]
  /\ DOEPINT = [ep \in Endpoints |-> {}]
  /\ DOEPMSK = {}
  /\ outCb = <<>>
  /\ nrx = 0
  /\ ncycle = 0
  /\ fifoBusy = {}
  /\ acc = {}

\* No reception is under way on any endpoint.
OutIdle == [ep \in Endpoints |->
              [rxqueued |-> FALSE, rxsize |-> 0, rxcnt |-> 0, rxbuf |-> 0]]

FillIdle == FillIdleWith(<<>>, OutIdle)

(***************************************************************************)
(* The transfer primitives at work: n bytes are fetched from an output     *)
(* queue and pushed, and the words pushed are popped again, into an input  *)
(* queue or into a linear buffer.                                          *)
(***************************************************************************)
\* The bytes queued for transmission.
OutByte(i) == (i * 37 + 201) % 256

\* Memory that holds the linear buffer and what follows it.
MemLen == MaxCap + 8

\* The threads that may be waiting on a queue when a primitive runs on it, in
\* the order of the list.
MaxWaiting == 2
Writers == <<"writer", "writer2">>
Readers == <<"reader", "reader2">>

InitFifo ==
  /\ AllocIdle
  /\ FillIdle
  /\ \E capOut \in 1..MaxCap, capIn \in 1..MaxCap :
    \E rd \in 0..(capOut - 1), wr \in 0..(capIn - 1) :
      \E n \in 0..(IF capOut <= capIn THEN capOut ELSE capIn), k \in 0..MaxWaiting :
        /\ oq = [q_buffer |-> [i \in 1..capOut |-> OutByte(i)], q_rdptr |-> rd,
                 q_counter |-> capOut - n, q_waiting |-> SubSeq(Writers, 1, k)]
        /\ iq = [q_buffer |-> [i \in 1..capIn |-> 0], q_wrptr |-> wr,
                 q_counter |-> 0, q_waiting |-> SubSeq(Readers, 1, k)]
        /\ fifo = <<>>
        /\ rxmem = [i \in 1..MemLen |-> 0]
        /\ job = [stage |-> "idle", n |-> n, rd0 |-> rd, wr0 |-> wr, max |-> 0,
           streaks |-> <<>>]
        /\ rxlog = [pops |-> 0, stored |-> {}, streaks |-> <<>>]
        /\ woken = <<>>

\* The values of these variables where no transfer primitive is exercised.
FifoIdle ==
  /\ oq = [q_buffer |-> <<0>>, q_rdptr |-> 0, q_counter |-> 1, q_waiting |-> <<>>]
  /\ iq = [q_buffer |-> <<0>>, q_wrptr |-> 0, q_counter |-> 0, q_waiting |-> <<>>]
  /\ fifo = <<>>
  /\ rxmem = <<>>
  /\ job = [stage |-> "none", n |-> 0, rd0 |-> 0, wr0 |-> 0, max |-> 0,
           streaks |-> <<>>]
  /\ rxlog = [pops |-> 0, stored |-> {}, streaks |-> <<>>]
  /\ woken = <<>>

WriteFromQueue ==
  /\ job.stage = "idle"
  /\ LET r == otg_fifo_write_from_queue(oq, job.n)
     IN /\ oq' = r.q
        /\ fifo' = fifo \o r.out
        /\ woken' = woken \o oq.q_waiting
        /\ job' = [job EXCEPT !.stage = "pushed", !.streaks = r.streaks]
  /\ UNCHANGED <<allocVars, fillVars, iq, rxmem, rxlog>>

ReadToQueue ==
  /\ job.stage = "pushed"
  /\ LET r == otg_fifo_read_to_queue(iq, job.n, fifo)
     IN /\ iq' = r.q
        /\ fifo' = r.f
        /\ rxlog' = [pops |-> r.pops, stored |-> {}, streaks |-> r.streaks]
        /\ woken' = woken \o iq.q_waiting
  /\ job' = [job EXCEPT !.stage = "queued"]
  /\ UNCHANGED <<allocVars, fillVars, oq, rxmem>>

ReadToBuffer(max) ==
  /\ job.stage = "pushed"
  /\ LET r == otg_fifo_read_to_buffer(rxmem, job.n, max, fifo)
     IN /\ rxmem' = r.mem
        /\ fifo' = r.f
        /\ rxlog' = [pops |-> r.pops, stored |-> r.stored, streaks |-> <<>>]
  /\ job' = [job EXCEPT !.stage = "buffered", !.max = max]
  /\ UNCHANGED <<allocVars, fillVars, oq, iq, woken>>

NextFifo ==
  \/ WriteFromQueue
  \/ ReadToQueue
  \/ \E max \in 0..MaxCap : ReadToBuffer(max)

SpecFifo == InitFifo /\ [][NextFifo]_vars

(***************************************************************************)
(* Endpoint configuration: the allocator under reset, endpoint             *)
(* initialization and endpoint disabling.                                  *)
(***************************************************************************)
InitAlloc == AllocIdle /\ FifoIdle /\ FillIdle

NextAlloc ==
  \/ usb_lld_reset
  \/ \E ep \in 1..MaxInitEp, cfg \in EpConfigs : usb_lld_init_endpoint(ep, cfg)
  \/ usb_lld_disable_endpoints

SpecAlloc == InitAlloc /\ [][NextAlloc]_vars

(***************************************************************************)
(* Transmission.                                                           *)
(***************************************************************************)
PumpThread == Ptr("usb_lld_pump")

\* Size in bytes of the receive buffer of endpoint 0.
RxBufLen == 16

\* The endpoint that transmits and the descriptors it is configured with.
TxEp == 1
TxConfigs == { Cfg("BULK", TRUE, FALSE, 64, 64, 1),
               Cfg("INTR", TRUE, FALSE, 8, 8, 1) }

\* The sizes of the transmissions: none, less than a packet, whole packets,
\* whole packets and a rest.
TxSizes == {t \in {0, 2, 8, 64, 128, 130} : t <= MaxTx}

\* Values read from the INEPTFSAV field (words free) of DTXFSTS.
DTXFSTS_INEPTFSAV_MASK == 65535
FsavReadings ==
  IF txroom = "unlimited" THEN {DTXFSTS_INEPTFSAV_MASK}
                          ELSE {0, 1, 16, DTXFSTS_INEPTFSAV_MASK}

in_maxsize(ep) == Deref(epc[ep]).in_maxsize

\* The sizes of the packets of a log, in the order pushed.
Sizes(log) == [i \in 1..Len(log) |-> log[i].n]

\* The sum of the sizes of the packets of a log.
RECURSIVE SumN(_)
SumN(log) == IF log = <<>> THEN 0 ELSE Head(log).n + SumN(Tail(log))

\* An access of the interrupt handler or of the pump to shared driver state,
\* inside (locked) or outside the kernel critical section.
Acc(by, var, op, locked) == [by |-> by, var |-> var, op |-> op, locked |-> locked]

\* A FIFO push or pop sequence.
Seqn(by, dir, ep) == [by |-> by, dir |-> dir, ep |-> ep]

\* The step is neither of the interrupt handler nor of the pump, and leaves
\* reception alone.
Elsewhere == acc' = {} /\ UNCHANGED <<rxVars, fifoBusy>>

\* The upper layer prepares a transmission of size bytes: it fills in the
\* endpoint's in_state and calls usb_lld_prepare_transmit, which programs
\* DIEPTSIZ.
usb_lld_prepare_transmit(ep, size, queued) ==
  /\ state = "USB_READY"
  /\ xfer[ep] = "idle"
  /\ nxfer < MaxXfers
  /\ queued => size <= Len(oq.q_buffer) - oq.q_counter
  /\ in_state' = [in_state EXCEPT ![ep] =
       [txqueued |-> queued, txsize |-> size, txcnt |-> 0, txbuf |-> 0]]
  /\ DIEPTSIZ' = [DIEPTSIZ EXCEPT ![ep] =
       IF size = 0
       THEN [PKTCNT |-> 1, XFRSIZ |-> 0]
       ELSE [PKTCNT |-> (size + in_maxsize(ep) - 1) \div in_maxsize(ep),
             XFRSIZ |-> size]]
  /\ pushes' = [pushes EXCEPT ![ep] = <<>>]
  /\ xfer' = [xfer EXCEPT ![ep] = "prepared"]
  /\ nxfer' = nxfer + 1
  /\ fillret' = NULL
  /\ UNCHANGED <<allocVars, fifoVars, state, txpending, thd_wait, pump, GAHBCFG,
                 GINTMSK, GINTSTS, DIEPMSK, DIEPEMPMSK, DIEPINT, inCb, txroom>>
  /\ Elsewhere

usb_lld_start_in(ep) ==
  /\ state = "USB_READY"
  /\ xfer[ep] = "prepared"
  /\ DIEPCTL' = [DIEPCTL EXCEPT ![ep].EPENA = TRUE]
  /\ DIEPEMPMSK' = DIEPEMPMSK \cup {ep}
  /\ xfer' = [xfer EXCEPT ![ep] = "started"]
  /\ UNCHANGED <<pmnext, halted, epc, DIEPTXF, DOEPCTL, DAINTMSK, allocLog,
                 fifoVars, state, in_state, txpending, thd_wait, pump, GAHBCFG,
                 GINTMSK, GINTSTS, DIEPMSK, DIEPINT, DIEPTSIZ, pushes, inCb,
                 fillret, txroom, nxfer>>
  /\ Elsewhere

(***************************************************************************)
(* The controller.                                                         *)
(***************************************************************************)
\* The TX FIFO of ep is (half) empty: the TXFE bit of DIEPINT comes up.
HwTxFifoEmpty(ep) ==
  /\ state = "USB_READY"
  /\ DIEPCTL[ep].USBAEP
  /\ "TXFE" \notin DIEPINT[ep]
  /\ DIEPINT' = [DIEPINT EXCEPT ![ep] = @ \cup {"TXFE"}]
  /\ UNCHANGED <<allocVars, fifoVars, state, in_state, txpending, thd_wait, pump,
                 GAHBCFG, GINTMSK, GINTSTS, DIEPMSK, DIEPEMPMSK, DIEPTSIZ,
                 pushes, inCb, fillret, txroom, xfer, nxfer>>
  /\ Elsewhere

\* The transfer of ep is complete: every byte of it was written to the TX
\* FIFO and has been sent; the endpoint is disabled and XFRC comes up.
HwXferComplete(ep) ==
  /\ state = "USB_READY"
  /\ DIEPCTL[ep].EPENA
  /\ SumN(pushes[ep]) >= DIEPTSIZ[ep].XFRSIZ
  /\ DIEPCTL' = [DIEPCTL EXCEPT ![ep].EPENA = FALSE]
  /\ DIEPINT' = [DIEPINT EXCEPT ![ep] = @ \cup {"XFRC"}]
  /\ UNCHANGED <<pmnext, halted, epc, DIEPTXF, DOEPCTL, DAINTMSK, allocLog,
                 fifoVars, state, in_state, txpending, thd_wait, pump, GAHBCFG,
                 GINTMSK, GINTSTS, DIEPMSK, DIEPEMPMSK, DIEPTSIZ, pushes, inCb,
                 fillret, txroom, xfer, nxfer>>
  /\ Elsewhere

(***************************************************************************)
(* otg_txfifo_handler.                                                     *)
(***************************************************************************)
\* The level STM32_USB_FIFO_FILL_PRIORITY_MASK of a build that configures
\* it: the base priority of the CPU while a packet is pushed.
STM32_USB_FIFO_FILL_PRIORITY_MASK == 1

\* The pump thread after chSysUnlock: the kernel of the ARMv7-M port leaves
\* its critical sections by writing 0 to BASEPRI.
chSysUnlock(p) == [p EXCEPT !.basepri = 0]

\* The transaction end condition.
TxDone(st) == st.txcnt >= st.txsize

\* The size of the next packet, cut to the room the FIFO reports.
TxPacketSize_cut_to_room(st, maxsize, fsav) ==
  LET n == IF st.txsize - st.txcnt > maxsize THEN maxsize
           ELSE st.txsize - st.txcnt
  IN IF fsav > 0 /\ fsav * 4 < n THEN fsav * 4 ELSE n

\* The size of the next packet, whatever is left.
TxPacketSize_unlimited(st, maxsize, fsav) == st.txsize - st.txcnt

\* The number of bytes of the next packet.
TxPacketSize(st, maxsize, fsav) ==
  IF st.txsize - st.txcnt > maxsize THEN maxsize ELSE st.txsize - st.txcnt

\* The test for room that wants more room than the packet takes.
TxFifoHasRoom_needs_spare(fsav, n) == fsav * 4 > n

\* Whether the TX FIFO has room for a packet of n bytes.
TxFifoHasRoom(fsav, n) == ~(fsav * 4 < n)

\* One turn of the loop of otg_txfifo_handler(usbp, ep) with fsav read from
\* DTXFSTS: the handler returns TRUE, returns FALSE, or begins to push a
\* packet of n bytes.  The pump keeps the reading that made it return FALSE.
otg_txfifo_handler(ep, fsav) ==
  LET st == in_state[ep]
      n == TxPacketSize(st, in_maxsize(ep), fsav)
      ret(done) == [ep |-> ep, done |-> done, txsize |-> st.txsize,
                    txcnt |-> st.txcnt, maxsize |-> in_maxsize(ep),
                    pushed |-> Len(pushes[ep])]
  IN /\ acc' = {Acc("pump", "txcnt", "read", FALSE)}
     /\ IF TxDone(st)
        THEN /\ pump' = [pump EXCEPT !.pc = "end", !.done = TRUE,
                                     !.res[ep] = "done"]
             /\ fillret' = Ptr(ret(TRUE))
             /\ UNCHANGED fifoBusy
        ELSE IF ~TxFifoHasRoom(fsav, n)
             THEN /\ pump' = [pump EXCEPT !.pc = "end", !.done = FALSE,
                                          !.fsav = fsav, !.res[ep] = "notdone"]
                  /\ fillret' = Ptr(ret(FALSE))
                  /\ UNCHANGED fifoBusy
             ELSE /\ pump' = [pump EXCEPT !.pc = "push", !.n = n,
                       !.basepri = STM32_USB_FIFO_FILL_PRIORITY_MASK]
                  /\ fifoBusy' = fifoBusy \cup {Seqn("pump", "tx", ep)}
                  /\ UNCHANGED fillret

\* The packet of n bytes goes to the TX FIFO of ep from the queue or from
\* the linear buffer, and the counters of the transfer move on.
TxPush(ep, n) ==
  LET st == in_state[ep]
      \* history: the packet is pushed after a return of FALSE
      resumed == fillret # NULL /\ ~Deref(fillret).done
  IN /\ IF st.txqueued
        THEN LET r == otg_fifo_write_from_queue(oq, n)
             IN /\ oq' = r.q
                /\ woken' = woken \o oq.q_waiting
                /\ pushes' = [pushes EXCEPT ![ep] =
                     Append(@, [n |-> n, words |-> Len(r.out),
                                resumed |-> resumed])]
                /\ in_state' = [in_state EXCEPT ![ep].txcnt = @ + n]
        ELSE /\ pushes' = [pushes EXCEPT ![ep] =
                  Append(@, [n |-> n, words |-> otg_fifo_write_from_buffer(n),
                             resumed |-> resumed])]
             /\ in_state' = [in_state EXCEPT ![ep].txcnt = @ + n,
                                             ![ep].txbuf = @ + n]
             /\ UNCHANGED <<oq, woken>>
     /\ fifoBusy' = fifoBusy \ {Seqn("pump", "tx", ep)}
     /\ acc' = {Acc("pump", "txcnt", "write", FALSE)}

(***************************************************************************)
(* otg_rxfifo_handler.                                                     *)
(***************************************************************************)
\* The words of a packet of cnt bytes as the RX FIFO delivers them.
RxWords(cnt) ==
  [i \in 1..((cnt + 3) \div 4) |-> [j \in 1..4 |-> OutByte(4 * (i - 1) + j)]]

\* (max + 3) / 4 for max = rxsize - rxcnt, a size_t of 32 bits that wraps
\* when rxcnt is beyond rxsize.
RxMaxWords(rxsize, rxcnt) ==
  IF rxsize >= rxcnt THEN (rxsize - rxcnt + 3) \div 4
  \* max + 3 wraps once more, to 3 - (rxcnt - rxsize)
  ELSE IF rxcnt - rxsize <= 3 THEN (3 - (rxcnt - rxsize)) \div 4
  ELSE 1073741824 + ((3 - (rxcnt - rxsize)) \div 4)

\* A handler that counts the bytes received only in the linear branch.
otg_rxfifo_handler_linear_count(sts) ==
  LET cnt == sts.bcnt
      ep == sts.ep
      osp == out_state[ep]
      same == [setup_buf |-> setup_buf, rxmem |-> rxmem, iq |-> iq,
               woken |-> woken, out_state |-> out_state, pops |-> 0,
               stored |-> {}]
  IN IF sts.pktsts = "SETUP_DATA"
     THEN LET r == otg_fifo_read_to_buffer(setup_buf, cnt, 8, RxWords(cnt))
          IN [same EXCEPT !.setup_buf = r.mem, !.pops = r.pops,
                          !.stored = r.stored]
     ELSE IF sts.pktsts = "OUT_DATA"
     THEN IF osp.rxqueued
          THEN LET r == otg_fifo_read_to_queue(iq, cnt, RxWords(cnt))
               IN [same EXCEPT !.iq = r.q, !.woken = woken \o iq.q_waiting,
                               !.pops = r.pops]
          ELSE LET r == ReadToBufferLoop(rxmem, osp.rxbuf, (cnt + 3) \div 4,
                                         RxMaxWords(osp.rxsize, osp.rxcnt),
                                         RxWords(cnt), {}, 0)
               IN [same EXCEPT !.rxmem = r.mem, !.pops = r.pops,
                               !.stored = r.stored,
                               !.out_state[ep].rxbuf = @ + cnt,
                               !.out_state[ep].rxcnt = @ + cnt]
     ELSE same

\* A handler whose SETUP_COMP case falls through into the SETUP_DATA case.
otg_rxfifo_handler_no_break(sts) ==
  LET cnt == sts.bcnt
      ep == sts.ep
      osp == out_state[ep]
      same == [setup_buf |-> setup_buf, rxmem |-> rxmem, iq |-> iq,
               woken |-> woken, out_state |-> out_state, pops |-> 0,
               stored |-> {}]
  IN IF sts.pktsts \in {"SETUP_COMP", "SETUP_DATA"}
     THEN LET r == otg_fifo_read_to_buffer(setup_buf, cnt, 8, RxWords(cnt))
          IN [same EXCEPT !.setup_buf = r.mem, !.pops = r.pops,
                          !.stored = r.stored]
     ELSE IF sts.pktsts = "OUT_DATA"
     THEN IF osp.rxqueued
          THEN LET r == otg_fifo_read_to_queue(iq, cnt, RxWords(cnt))
               IN [same EXCEPT !.iq = r.q, !.woken = woken \o iq.q_waiting,
                               !.pops = r.pops,
                               !.out_state[ep].rxcnt = @ + cnt]
          ELSE LET r == ReadToBufferLoop(rxmem, osp.rxbuf, (cnt + 3) \div 4,
                                         RxMaxWords(osp.rxsize, osp.rxcnt),
                                         RxWords(cnt), {}, 0)
               IN [same EXCEPT !.rxmem = r.mem, !.pops = r.pops,
                               !.stored = r.stored,
                               !.out_state[ep].rxbuf = @ + cnt,
                               !.out_state[ep].rxcnt = @ + cnt]
     ELSE same

\* What otg_rxfifo_handler does with the status entry sts it popped from
\* GRXSTSP: the setup buffer, the receive buffer, the input queue, the
\* threads made ready and the OUT state afterwards, and the words popped.
otg_rxfifo_handler(sts) ==
  LET cnt == sts.bcnt
      ep == sts.ep
      osp == out_state[ep]
      same == [setup_buf |-> setup_buf, rxmem |-> rxmem, iq |-> iq,
               woken |-> woken, out_state |-> out_state, pops |-> 0,
               stored |-> {}]
  IN IF sts.pktsts = "SETUP_DATA"
     THEN LET r == otg_fifo_read_to_buffer(setup_buf, cnt, 8, RxWords(cnt))
          IN [same EXCEPT !.setup_buf = r.mem, !.pops = r.pops,
                          !.stored = r.stored]
     ELSE IF sts.pktsts = "OUT_DATA"
     THEN IF osp.rxqueued
          THEN LET r == otg_fifo_read_to_queue(iq, cnt, RxWords(cnt))
               IN [same EXCEPT !.iq = r.q, !.woken = woken \o iq.q_waiting,
                               !.pops = r.pops,
                               !.out_state[ep].rxcnt = @ + cnt]
          ELSE LET r == ReadToBufferLoop(rxmem, osp.rxbuf, (cnt + 3) \div 4,
                                         RxMaxWords(osp.rxsize, osp.rxcnt),
                                         RxWords(cnt), {}, 0)
               IN [same EXCEPT !.rxmem = r.mem, !.pops = r.pops,
                               !.stored = r.stored,
                               !.out_state[ep].rxbuf = @ + cnt,
                               !.out_state[ep].rxcnt = @ + cnt]
     ELSE same

(***************************************************************************)
(* The interrupt handler and its endpoint handlers.                        *)
(***************************************************************************)
\* The part of the state the interrupt handler works on.
IsrState == [DIEPINT |-> DIEPINT, txpending |-> txpending,
             DIEPEMPMSK |-> DIEPEMPMSK, thd_wait |-> thd_wait, pump |-> pump,
             inCb |-> inCb, xfer |-> xfer, GINTMSK |-> GINTMSK,
             DOEPINT |-> DOEPINT, outCb |-> outCb, in_state |-> in_state,
             out_state |-> out_state, pushes |-> pushes, rxq |-> rxq,
             fifoBusy |-> fifoBusy, acc |-> {}]

\* The resume that leaves thd_wait as it is.
ResumePump_keeps_wait(s) ==
  IF s.thd_wait # NULL
  THEN [s EXCEPT !.pump.resumes = @ + 1,
                 !.pump.pc = IF s.pump.pc = "created" THEN "check" ELSE "woken"]
  ELSE s

\* chThdResumeI(usbp->thd_wait); usbp->thd_wait = NULL, inside the critical
\* section: the suspended pump becomes ready; a thread that never ran starts
\* at the top of usb_lld_pump.
ResumePump(s) ==
  IF s.thd_wait # NULL
  THEN [s EXCEPT !.thd_wait = NULL,
                 !.pump.resumes = @ + 1,
                 !.pump.pc = IF s.pump.pc = "created" THEN "check" ELSE "woken",
                 !.acc = @ \cup {Acc("isr", "thd_wait", "write", TRUE)}]
  ELSE s

\* _usb_isr_invoke_in_cb(usbp, ep): the endpoint is no longer transmitting
\* and its in_cb callback is invoked.
usb_isr_invoke_in_cb(s, ep) ==
  [s EXCEPT !.xfer[ep] = "idle",
            !.inCb = Append(@, [ep |-> ep, txqueued |-> in_state[ep].txqueued,
                                txsize |-> in_state[ep].txsize,
                                txcnt |-> in_state[ep].txcnt,
                                maxsize |-> in_maxsize(ep),
                                pushed |-> Sizes(pushes[ep])])]

\* The condition under which the callback is invoked, taken on the FIFO
\* empty event.
EpInXfrc_on_txfe(epint) == "TXFE" \in epint

\* (epint & DIEPINT_XFRC) && (OTG->DIEPMSK & DIEPMSK_XFRCM)
EpInXfrc(epint) == "XFRC" \in epint /\ "XFRCM" \in DIEPMSK

\* (epint & DIEPINT_TXFE) && (OTG->DIEPEMPMSK & DIEPEMPMSK_INEPTXFEM(ep))
EpInTxfe(s, epint, ep) == "TXFE" \in epint /\ ep \in s.DIEPEMPMSK

\* The accesses of the FIFO empty branch, were it to run unlocked.
EpInTxfeAcc_unlocked ==
  {Acc("isr", "txpending", "write", FALSE), Acc("isr", "thd_wait", "read", FALSE)}

\* The accesses of the FIFO empty branch, between chSysLockFromIsr and
\* chSysUnlockFromIsr.
EpInTxfeAcc ==
  {Acc("isr", "txpending", "write", TRUE), Acc("isr", "thd_wait", "read", TRUE)}

\* The handler that fills the TX FIFO itself on the FIFO empty event.
otg_epin_handler_filling(s, ep) ==
  LET epint == s.DIEPINT[ep]
      s1 == [s EXCEPT !.DIEPINT[ep] = {}]
  IN IF EpInTxfe(s1, epint, ep) /\ s.in_state[ep].txcnt < s.in_state[ep].txsize
     THEN [s1 EXCEPT !.fifoBusy = @ \cup {Seqn("isr", "tx", ep)},
                     !.in_state[ep].txcnt = s.in_state[ep].txsize,
                     !.pushes[ep] = Append(@, [n |-> s.in_state[ep].txsize
                                                      - s.in_state[ep].txcnt,
                                               words |-> 0, resumed |-> FALSE])]
     ELSE s1

\* The handler that flags the endpoint and leaves the pump asleep.
otg_epin_handler_no_wakeup(s, ep) ==
  LET epint == s.DIEPINT[ep]
      s1 == [s EXCEPT !.DIEPINT[ep] = {}]
      s2 == IF EpInXfrc(epint) THEN usb_isr_invoke_in_cb(s1, ep) ELSE s1
  IN IF EpInTxfe(s2, epint, ep)
     THEN [s2 EXCEPT !.txpending = @ \cup {ep},
                     !.DIEPEMPMSK = @ \ {ep},
                     !.acc = @ \cup EpInTxfeAcc]
     ELSE s2

otg_epin_handler(s, ep) ==
  LET epint == s.DIEPINT[ep]
      s1 == [s EXCEPT !.DIEPINT[ep] = {}]
      s2 == IF EpInXfrc(epint) THEN usb_isr_invoke_in_cb(s1, ep) ELSE s1
  IN IF EpInTxfe(s2, epint, ep)
     THEN ResumePump([s2 EXCEPT !.txpending = @ \cup {ep},
                                !.DIEPEMPMSK = @ \ {ep},
                                !.acc = @ \cup EpInTxfeAcc])
     ELSE s2

\* _usb_isr_invoke_setup_cb and _usb_isr_invoke_out_cb: the callback of the
\* endpoint is invoked.
usb_isr_invoke_out_cb(s, cb, ep) ==
  [s EXCEPT !.outCb = Append(@, [cb |-> cb, ep |-> ep])]

\* The handler that reads the RX FIFO itself.
otg_epout_handler_reading(s, ep) ==
  LET epint == s.DOEPINT[ep]
      s1 == [s EXCEPT !.DOEPINT[ep] = {},
                      !.fifoBusy = @ \cup {Seqn("isr", "rx", ep)}]
      s2 == IF "STUP" \in epint /\ "STUPM" \in DOEPMSK
            THEN usb_isr_invoke_out_cb(s1, "setup", ep) ELSE s1
  IN IF "XFRC" \in epint /\ "XFRCM" \in DOEPMSK
     THEN usb_isr_invoke_out_cb(s2, "out", ep) ELSE s2

otg_epout_handler(s, ep) ==
  LET epint == s.DOEPINT[ep]
      s1 == [s EXCEPT !.DOEPINT[ep] = {}]
      s2 == IF "STUP" \in epint /\ "STUPM" \in DOEPMSK
            THEN usb_isr_invoke_out_cb(s1, "setup", ep) ELSE s1
  IN IF "XFRC" \in epint /\ "XFRCM" \in DOEPMSK
     THEN usb_isr_invoke_out_cb(s2, "out", ep) ELSE s2

\* The DAINT bit of IN endpoint ep: an enabled interrupt source is pending.
DaintIn(ep) ==
  \/ "XFRC" \in DIEPINT[ep] /\ "XFRCM" \in DIEPMSK
  \/ "TOC" \in DIEPINT[ep] /\ "TOCM" \in DIEPMSK
  \/ "TXFE" \in DIEPINT[ep] /\ ep \in DIEPEMPMSK

\* The DAINT bit of OUT endpoint ep.
DaintOut(ep) ==
  \/ "XFRC" \in DOEPINT[ep] /\ "XFRCM" \in DOEPMSK
  \/ "STUP" \in DOEPINT[ep] /\ "STUPM" \in DOEPMSK

\* sts = OTG->GINTSTS & OTG->GINTMSK
IrqSts ==
  (IF "RXFLVL" \in GINTSTS /\ "RXFLVLM" \in GINTMSK THEN {"RXFLVL"} ELSE {})
  \cup (IF "IEPM" \in GINTMSK /\ \E ep \in Endpoints :
                                   IEPM(ep) \in DAINTMSK /\ DaintIn(ep)
        THEN {"IEPINT"} ELSE {})
  \cup (IF "OEPM" \in GINTMSK /\ \E ep \in Endpoints :
                                   OEPM(ep) \in DAINTMSK /\ DaintOut(ep)
        THEN {"OEPINT"} ELSE {})

\* "RX FIFO not empty handling" that leaves the source enabled.
IsrRxflvl_keeps_mask(s) ==
  ResumePump([s EXCEPT !.acc = @ \cup {Acc("isr", "thd_wait", "read", FALSE)}])

\* "RX FIFO not empty handling": the source is masked; thd_wait is tested
\* before the critical section is entered.
IsrRxflvl(s) ==
  ResumePump([s EXCEPT !.GINTMSK = @ \ {"RXFLVLM"},
                       !.acc = @ \cup {Acc("isr", "thd_wait", "read", FALSE)}])

\* The calls of otg_epin_handler for endpoints ep, ep + 1, ..., 3.
RECURSIVE IsrEpIn(_, _)
IsrEpIn(s, ep) ==
  IF ep > USB_MAX_ENDPOINTS THEN s
  ELSE IsrEpIn(IF DaintIn(ep) THEN otg_epin_handler(s, ep) ELSE s, ep + 1)

\* The calls of otg_epout_handler for endpoints ep, ep + 1, ..., 3.
RECURSIVE IsrEpOut(_, _)
IsrEpOut(s, ep) ==
  IF ep > USB_MAX_ENDPOINTS THEN s
  ELSE IsrEpOut(IF DaintOut(ep) THEN otg_epout_handler(s, ep) ELSE s, ep + 1)

\* The OTG1 interrupt handler, for the receive FIFO and the endpoint events.
OTG1_IRQ ==
  /\ "GINTMSK" \in GAHBCFG
  /\ IrqSts # {}
  /\ LET s1 == IF "RXFLVL" \in IrqSts THEN IsrRxflvl(IsrState) ELSE IsrState
         s2 == IF IrqSts \cap {"IEPINT", "OEPINT"} # {}
               THEN IsrEpOut(IsrEpIn(s1, 0), 0) ELSE s1
     IN /\ DIEPINT' = s2.DIEPINT
        /\ txpending' = s2.txpending
        /\ DIEPEMPMSK' = s2.DIEPEMPMSK
        /\ thd_wait' = s2.thd_wait
        /\ pump' = s2.pump
        /\ inCb' = s2.inCb
        /\ xfer' = s2.xfer
        /\ GINTMSK' = s2.GINTMSK
        /\ DOEPINT' = s2.DOEPINT
        /\ outCb' = s2.outCb
        /\ in_state' = s2.in_state
        /\ out_state' = s2.out_state
        /\ pushes' = s2.pushes
        /\ rxq' = s2.rxq
        /\ fifoBusy' = s2.fifoBusy
        /\ acc' = s2.acc
  /\ UNCHANGED <<allocVars, fifoVars, state, GAHBCFG, GINTSTS, DIEPMSK, DIEPTSIZ,
                 fillret, txroom, nxfer, setup_buf, DOEPMSK, nrx, ncycle>>

(***************************************************************************)
(* usb_lld_pump.                                                           *)
(***************************************************************************)
\* The end of one turn of the for loop: the next endpoint, or back to the
\* top of the while loop.
PumpNextEp ==
  IF pump.ep = USB_MAX_ENDPOINTS
  THEN [pump EXCEPT !.pc = "check", !.fsav = 0]
  ELSE [pump EXCEPT !.pc = "rx", !.ep = pump.ep + 1, !.fsav = 0]

\* The condition of "Nothing to do, going to sleep".
PumpIdle == state = "USB_STOP" \/ (txpending = {} /\ "RXFLVL" \notin GINTSTS)

\* The pump as it starts the for loop: no endpoint has been filled yet in
\* this pass.
PumpPass(p) ==
  [p EXCEPT !.pc = "rx", !.ep = 0, !.res = [ep \in Endpoints |-> "none"]]

\* The top of the while loop where the thread suspends without recording
\* itself in thd_wait.
PumpCheck_forgets_wait ==
  /\ pump.pc = "check"
  /\ IF PumpIdle
     THEN /\ GINTMSK' = GINTMSK \cup {"RXFLVLM"}
          /\ pump' = [pump EXCEPT !.pc = "sleeping", !.resumes = 0]
          /\ UNCHANGED thd_wait
     ELSE /\ pump' = PumpPass(pump)
          /\ UNCHANGED <<GINTMSK, thd_wait>>
  /\ acc' = {}
  /\ UNCHANGED <<allocVars, fifoVars, state, in_state, txpending, GAHBCFG,
                 GINTSTS, DIEPMSK, DIEPEMPMSK, DIEPINT, DIEPTSIZ, pushes, inCb,
                 fillret, txroom, xfer, nxfer, rxVars, fifoBusy>>

\* The top of the while loop, inside the critical section: the thread
\* suspends itself or goes on to the for loop.
PumpCheck ==
  /\ pump.pc = "check"
  /\ IF PumpIdle
     THEN /\ GINTMSK' = GINTMSK \cup {"RXFLVLM"}
          /\ thd_wait' = PumpThread
          /\ pump' = [pump EXCEPT !.pc = "sleeping", !.resumes = 0]
          /\ acc' = {Acc("pump", "txpending", "read", TRUE),
                     Acc("pump", "thd_wait", "write", TRUE)}
     ELSE /\ pump' = PumpPass(pump)
          /\ acc' = {Acc("pump", "txpending", "read", TRUE)}
          /\ UNCHANGED <<GINTMSK, thd_wait>>
  /\ UNCHANGED <<allocVars, fifoVars, state, in_state, txpending, GAHBCFG,
                 GINTSTS, DIEPMSK, DIEPEMPMSK, DIEPINT, DIEPTSIZ, pushes, inCb,
                 fillret, txroom, xfer, nxfer, rxVars, fifoBusy>>

\* The pump runs again after chSchGoSleepS and leaves the critical section.
PumpResume ==
  /\ pump.pc = "woken"
  /\ pump' = PumpPass(pump)
  /\ acc' = {}
  /\ UNCHANGED <<allocVars, fifoVars, state, in_state, txpending, thd_wait,
                 GAHBCFG, GINTMSK, GINTSTS, DIEPMSK, DIEPEMPMSK, DIEPINT,
                 DIEPTSIZ, pushes, inCb, fillret, txroom, xfer, nxfer, rxVars,
                 fifoBusy>>

\* The RX FIFO emptied before the first endpoint of a pass only.
PumpRx_first_only ==
  /\ pump.pc = "rx"
  /\ IF "RXFLVL" \in GINTSTS /\ pump.ep = 0
     THEN /\ pump' = [pump EXCEPT !.pc = "pop", !.sts = Ptr(Head(rxq))]
          /\ fifoBusy' = fifoBusy \cup {Seqn("pump", "rx", Head(rxq).ep)}
     ELSE /\ pump' = [pump EXCEPT !.pc = "test"]
          /\ UNCHANGED fifoBusy
  /\ acc' = {}
  /\ UNCHANGED <<allocVars, fifoVars, state, in_state, txpending, thd_wait,
                 GAHBCFG, GINTMSK, GINTSTS, DIEPMSK, DIEPEMPMSK, DIEPINT,
                 DIEPTSIZ, pushes, inCb, fillret, txroom, xfer, nxfer, rxVars>>

\* "Empties the RX FIFO": while GINTSTS shows RXFLVL, otg_rxfifo_handler is
\* called and pops the status entry from GRXSTSP; the loop ends when the RX
\* FIFO holds nothing.
PumpRx ==
  /\ pump.pc = "rx"
  /\ IF "RXFLVL" \in GINTSTS
     THEN /\ pump' = [pump EXCEPT !.pc = "pop", !.sts = Ptr(Head(rxq))]
          /\ fifoBusy' = fifoBusy \cup {Seqn("pump", "rx", Head(rxq).ep)}
     ELSE /\ pump' = [pump EXCEPT !.pc = "test"]
          /\ UNCHANGED fifoBusy
  /\ acc' = {}
  /\ UNCHANGED <<allocVars, fifoVars, state, in_state, txpending, thd_wait,
                 GAHBCFG, GINTMSK, GINTSTS, DIEPMSK, DIEPEMPMSK, DIEPINT,
                 DIEPTSIZ, pushes, inCb, fillret, txroom, xfer, nxfer, rxVars>>

\* The rest of otg_rxfifo_handler: the data of the entry is popped; the
\* controller drops the entry and raises the endpoint's interrupt on a
\* completion entry.
PumpPop ==
  /\ pump.pc = "pop"
  /\ LET sts == Deref(pump.sts)
         r == otg_rxfifo_handler(sts)
     IN /\ setup_buf' = r.setup_buf
        /\ rxmem' = r.rxmem
        /\ iq' = r.iq
        /\ woken' = r.woken
        /\ out_state' = r.out_state
        /\ IF rxq # <<>>
           THEN /\ rxq' = Tail(rxq)
                /\ GINTSTS' = IF Tail(rxq) = <<>> THEN GINTSTS \ {"RXFLVL"}
                                                 ELSE GINTSTS
                /\ DOEPINT' = [DOEPINT EXCEPT ![sts.ep] =
                     @ \cup (IF sts.pktsts = "SETUP_COMP" THEN {"STUP"}
                             ELSE IF sts.pktsts = "OUT_COMP" THEN {"XFRC"}
                             ELSE {})]
           \* the core was reset meanwhile and the RX FIFO holds nothing
           ELSE UNCHANGED <<rxq, GINTSTS, DOEPINT>>
        /\ fifoBusy' = fifoBusy \ {Seqn("pump", "rx", sts.ep)}
        /\ acc' = IF sts.pktsts = "OUT_DATA"
                  THEN {Acc("pump", "rxcnt", "write", FALSE)} ELSE {}
  /\ pump' = [pump EXCEPT !.pc = "rx", !.sts = NULL]
  /\ UNCHANGED <<allocVars, oq, fifo, job, rxlog, state, in_state, txpending,
                 thd_wait, GAHBCFG, GINTMSK, DIEPMSK, DIEPEMPMSK, DIEPINT,
                 DIEPTSIZ, pushes, inCb, fillret, txroom, xfer, nxfer, DOEPMSK,
                 outCb, nrx, ncycle>>

\* if (usbp->txpending & epmask), outside the critical section.
PumpTest ==
  /\ pump.pc = "test"
  /\ pump' = IF pump.ep \in txpending THEN [pump EXCEPT !.pc = "begin"]
                                      ELSE PumpNextEp
  /\ acc' = {Acc("pump", "txpending", "read", FALSE)}
  /\ UNCHANGED <<allocVars, fifoVars, state, in_state, txpending, thd_wait,
                 GAHBCFG, GINTMSK, GINTSTS, DIEPMSK, DIEPEMPMSK, DIEPINT,
                 DIEPTSIZ, pushes, inCb, fillret, txroom, xfer, nxfer, rxVars,
                 fifoBusy>>

\* The critical section before the fill that leaves the pending flag set.
PumpBegin_keeps_pending ==
  /\ pump.pc = "begin"
  /\ GAHBCFG' = GAHBCFG \ {"GINTMSK"}
  /\ pump' = [pump EXCEPT !.pc = "fill"]
  /\ acc' = {}
  /\ UNCHANGED <<allocVars, fifoVars, state, in_state, txpending, thd_wait,
                 GINTMSK, GINTSTS, DIEPMSK, DIEPEMPMSK, DIEPINT, DIEPTSIZ, pushes,
                 inCb, fillret, txroom, xfer, nxfer, rxVars, fifoBusy>>

\* The critical section before the fill: interrupts globally suspended, the
\* pending flag cleared.
PumpBegin ==
  /\ pump.pc = "begin"
  /\ GAHBCFG' = GAHBCFG \ {"GINTMSK"}
  /\ txpending' = txpending \ {pump.ep}
  /\ pump' = [pump EXCEPT !.pc = "fill"]
  /\ acc' = {Acc("pump", "txpending", "write", TRUE)}
  /\ UNCHANGED <<allocVars, fifoVars, state, in_state, thd_wait, GINTMSK,
                 GINTSTS, DIEPMSK, DIEPEMPMSK, DIEPINT, DIEPTSIZ, pushes, inCb,
                 fillret, txroom, xfer, nxfer, rxVars, fifoBusy>>

\* bool_t done = otg_txfifo_handler(usbp, ep), one turn of its loop at a time.
PumpFill ==
  /\ pump.pc = "fill"
  /\ \E fsav \in FsavReadings : otg_txfifo_handler(pump.ep, fsav)
  /\ UNCHANGED <<allocVars, fifoVars, state, in_state, txpending, thd_wait,
                 GAHBCFG, GINTMSK, GINTSTS, DIEPMSK, DIEPEMPMSK, DIEPINT,
                 DIEPTSIZ, pushes, inCb, txroom, xfer, nxfer, rxVars>>

\* The same turn where DTXFSTS reports a FIFO with all its room free.
PumpFillRoom ==
  /\ pump.pc = "fill"
  /\ otg_txfifo_handler(pump.ep, DTXFSTS_INEPTFSAV_MASK)
  /\ UNCHANGED <<allocVars, fifoVars, state, in_state, txpending, thd_wait,
                 GAHBCFG, GINTMSK, GINTSTS, DIEPMSK, DIEPEMPMSK, DIEPINT,
                 DIEPTSIZ, pushes, inCb, txroom, xfer, nxfer, rxVars>>

\* The packet the handler found room for is written to the FIFO.
PumpPush ==
  /\ pump.pc = "push"
  /\ TxPush(pump.ep, pump.n)
  /\ pump' = IF in_state[pump.ep].txqueued
             THEN chSysUnlock([pump EXCEPT !.pc = "fill"])
             ELSE [pump EXCEPT !.pc = "fill"]
  /\ UNCHANGED <<allocVars, iq, fifo, rxmem, job, rxlog, state, txpending,
                 thd_wait, GAHBCFG, GINTMSK, GINTSTS, DIEPMSK, DIEPEMPMSK,
                 DIEPINT, DIEPTSIZ, inCb, fillret, txroom, xfer, nxfer, rxVars>>

\* The critical section after the fill, without the re-arming of the FIFO
\* empty interrupt.
PumpEnd_never_rearms ==
  /\ pump.pc = "end"
  /\ GAHBCFG' = GAHBCFG \cup {"GINTMSK"}
  /\ pump' = chSysUnlock(PumpNextEp)
  /\ acc' = {}
  /\ UNCHANGED <<allocVars, fifoVars, state, in_state, txpending, thd_wait,
                 GINTMSK, GINTSTS, DIEPMSK, DIEPEMPMSK, DIEPINT, DIEPTSIZ, pushes,
                 inCb, fillret, txroom, xfer, nxfer, rxVars, fifoBusy>>

\* The critical section after the fill, where the pump itself sets the
\* pending flag again when the fill is not done.
PumpEnd_sets_pending ==
  /\ pump.pc = "end"
  /\ GAHBCFG' = GAHBCFG \cup {"GINTMSK"}
  /\ txpending' = IF pump.done THEN txpending ELSE txpending \cup {pump.ep}
  /\ pump' = chSysUnlock(PumpNextEp)
  /\ acc' = {}
  /\ UNCHANGED <<allocVars, fifoVars, state, in_state, thd_wait, GINTMSK,
                 GINTSTS, DIEPMSK, DIEPEMPMSK, DIEPINT, DIEPTSIZ, pushes, inCb,
                 fillret, txroom, xfer, nxfer, rxVars, fifoBusy>>

\* The end of the fill where the thread suspends itself.
PumpEnd_suspends ==
  /\ pump.pc = "end"
  /\ GAHBCFG' = GAHBCFG \cup {"GINTMSK"}
  /\ DIEPEMPMSK' = IF pump.done THEN DIEPEMPMSK ELSE DIEPEMPMSK \cup {pump.ep}
  /\ thd_wait' = PumpThread
  /\ pump' = chSysUnlock([pump EXCEPT !.pc = "sleeping", !.resumes = 0])
  /\ acc' = {}
  /\ UNCHANGED <<allocVars, fifoVars, state, in_state, txpending,
                 GINTMSK, GINTSTS, DIEPMSK, DIEPINT, DIEPTSIZ, pushes, inCb,
                 fillret, txroom, xfer, nxfer, rxVars, fifoBusy>>

\* The critical section after the fill that enables the FIFO empty interrupt
\* of the endpoint whatever the fill returned.
PumpEnd_always_rearms ==
  /\ pump.pc = "end"
  /\ GAHBCFG' = GAHBCFG \cup {"GINTMSK"}
  /\ DIEPEMPMSK' = DIEPEMPMSK \cup {pump.ep}
  /\ pump' = chSysUnlock(PumpNextEp)
  /\ acc' = {}
  /\ UNCHANGED <<allocVars, fifoVars, state, in_state, txpending, thd_wait,
                 GINTMSK, GINTSTS, DIEPMSK, DIEPINT, DIEPTSIZ, pushes, inCb,
                 fillret, txroom, xfer, nxfer, rxVars, fifoBusy>>

\* The critical section after the fill: interrupts enabled again, the FIFO
\* empty interrupt of the endpoint enabled again unless the fill is done.
PumpEnd ==
  /\ pump.pc = "end"
  /\ GAHBCFG' = GAHBCFG \cup {"GINTMSK"}
  /\ DIEPEMPMSK' = IF pump.done THEN DIEPEMPMSK ELSE DIEPEMPMSK \cup {pump.ep}
  /\ pump' = chSysUnlock(PumpNextEp)
  /\ acc' = {}
  /\ UNCHANGED <<allocVars, fifoVars, state, in_state, txpending, thd_wait,
                 GINTMSK, GINTSTS, DIEPMSK, DIEPINT, DIEPTSIZ, pushes, inCb,
                 fillret, txroom, xfer, nxfer, rxVars, fifoBusy>>

(***************************************************************************)
(* Reception by the controller, stop and start of the driver.              *)
(***************************************************************************)
\* The controller receives a packet of bcnt bytes on endpoint 0: the data
\* entry and the completion entry go to the RX FIFO and RXFLVL comes up.
HwRxPacket(kind, bcnt) ==
  /\ state = "USB_READY"
  /\ nrx < MaxRx
  \* a SETUP packet opens the control transfer, OUT packets follow it
  /\ kind = "SETUP" => nrx = 0
  /\ DOEPCTL[0].USBAEP
  /\ rxq' = rxq \o <<[pktsts |-> kind \o "_DATA", ep |-> 0, bcnt |-> bcnt],
                     [pktsts |-> kind \o "_COMP", ep |-> 0, bcnt |-> 0]>>
  /\ GINTSTS' = GINTSTS \cup {"RXFLVL"}
  /\ nrx' = nrx + 1
  /\ acc' = {}
  /\ UNCHANGED <<allocVars, fifoVars, state, in_state, txpending, thd_wait, pump,
                 GAHBCFG, GINTMSK, DIEPMSK, DIEPEMPMSK, DIEPINT, DIEPTSIZ,
                 pushes, inCb, fillret, txroom, xfer, nxfer, out_state,
                 setup_buf, DOEPINT, DOEPMSK, outCb, ncycle, fifoBusy>>

\* usb_lld_stop.
usb_lld_stop ==
  IF state # "USB_STOP"
  THEN /\ txpending' = {}
       /\ DAINTMSK' = {}
       /\ GAHBCFG' = {}
  ELSE UNCHANGED <<txpending, DAINTMSK, GAHBCFG>>

\* usbStop: the driver is stopped by usb_lld_stop and its state becomes
\* USB_STOP.
usbStop ==
  /\ ~halted
  /\ state = "USB_READY"
  /\ ncycle < MaxCycles
  /\ usb_lld_stop
  /\ state' = "USB_STOP"
  /\ ncycle' = ncycle + 1
  /\ acc' = {}
  /\ UNCHANGED <<pmnext, halted, epc, DIEPTXF, DIEPCTL, DOEPCTL, allocLog,
                 fifoVars, in_state, thd_wait, pump, GINTMSK, GINTSTS, DIEPMSK,
                 DIEPEMPMSK, DIEPINT, DIEPTSIZ, pushes, inCb, fillret, txroom,
                 xfer, nxfer, rxq, out_state, setup_buf, DOEPINT, DOEPMSK,
                 outCb, nrx, fifoBusy>>

\* usb_lld_start whose core reset also resets the FIFO RAM allocator.
usb_lld_start_resets_ram ==
  IF state = "USB_STOP"
  THEN /\ txpending' = {}
       /\ IF pump.pc = "none"
          THEN /\ thd_wait' = PumpThread
               /\ pump' = [pump EXCEPT !.pc = "created"]
          ELSE UNCHANGED <<thd_wait, pump>>
       /\ DIEPCTL' = [ep \in Endpoints |-> EPCTL_ZERO]
       /\ DOEPCTL' = [ep \in Endpoints |-> EPCTL_ZERO]
       /\ DIEPTSIZ' = [ep \in Endpoints |-> [PKTCNT |-> 0, XFRSIZ |-> 0]]
       /\ DIEPINT' = [ep \in Endpoints |-> {}]
       /\ DOEPINT' = [ep \in Endpoints |-> {}]
       /\ DIEPMSK' = {}
       /\ DOEPMSK' = {}
       /\ DAINTMSK' = {}
       /\ DIEPEMPMSK' = {}
       /\ rxq' = <<>>
       /\ GINTMSK' = {"ENUMDNEM", "USBRSTM"}
       /\ GINTSTS' = {}
       /\ GAHBCFG' = {"GINTMSK"}
       /\ pmnext' = otg_ram_reset
  ELSE UNCHANGED <<txpending, thd_wait, pump, DIEPCTL, DOEPCTL, DIEPTSIZ,
                   DIEPINT, DOEPINT, DIEPMSK, DOEPMSK, DAINTMSK, DIEPEMPMSK,
                   rxq, GINTMSK, GINTSTS, GAHBCFG, pmnext>>

\* usb_lld_start: the pump thread is created, suspended, the first time;
\* the core is reset, the endpoints are disabled, the interrupts are
\* cleared and enabled again.  The FIFO RAM allocator is left as it is.
usb_lld_start ==
  IF state = "USB_STOP"
  THEN /\ txpending' = {}
       /\ IF pump.pc = "none"
          THEN /\ thd_wait' = PumpThread
               /\ pump' = [pump EXCEPT !.pc = "created"]
          ELSE UNCHANGED <<thd_wait, pump>>
       /\ DIEPCTL' = [ep \in Endpoints |-> EPCTL_ZERO]
       /\ DOEPCTL' = [ep \in Endpoints |-> EPCTL_ZERO]
       /\ DIEPTSIZ' = [ep \in Endpoints |-> [PKTCNT |-> 0, XFRSIZ |-> 0]]
       /\ DIEPINT' = [ep \in Endpoints |-> {}]
       /\ DOEPINT' = [ep \in Endpoints |-> {}]
       /\ DIEPMSK' = {}
       /\ DOEPMSK' = {}
       /\ DAINTMSK' = {}
       /\ DIEPEMPMSK' = {}
       /\ rxq' = <<>>
       /\ GINTMSK' = {"ENUMDNEM", "USBRSTM"}
       /\ GINTSTS' = {}
       /\ GAHBCFG' = {"GINTMSK"}
       /\ UNCHANGED pmnext
  ELSE UNCHANGED <<txpending, thd_wait, pump, DIEPCTL, DOEPCTL, DIEPTSIZ,
                   DIEPINT, DOEPINT, DIEPMSK, DOEPMSK, DAINTMSK, DIEPEMPMSK,
                   rxq, GINTMSK, GINTSTS, GAHBCFG, pmnext>>

\* usbStart: the driver is started by usb_lld_start and its state becomes
\* USB_READY.
usbStart ==
  /\ ~halted
  /\ state = "USB_STOP"
  /\ usb_lld_start
  /\ state' = "USB_READY"
  /\ acc' = {}
  /\ UNCHANGED <<halted, epc, DIEPTXF, allocLog, fifoVars, in_state, pushes,
                 inCb, fillret, txroom, xfer, nxfer, out_state, setup_buf,
                 outCb, nrx, ncycle, fifoBusy>>

(***************************************************************************)
(* Transmission on endpoint TxEp: the driver was started and reset and the *)
(* endpoint was initialized; the pump thread was created suspended.  When  *)
(* first is not NULL, a first transfer of Deref(first) bytes from a linear *)
(* buffer was prepared and started with usb_lld_start_in.                  *)
(***************************************************************************)
InitTxFrom(cfg, room, rd, first) ==
    /\ pmnext = otg_ram_reset + ep0config.in_maxsize \div 4 + InFifoSize(cfg)
    /\ halted = FALSE
    /\ epc = [i \in Endpoints |->
                IF i = 0 THEN Ptr(ep0config) ELSE IF i = TxEp THEN Ptr(cfg) ELSE NULL]
    /\ DIEPTXF = [i \in Endpoints |->
         IF i = 0 THEN [INEPTXSA |-> otg_ram_reset,
                        INEPTXFD |-> ep0config.in_maxsize \div 4]
         ELSE IF i = TxEp
              THEN [INEPTXSA |-> otg_ram_reset + ep0config.in_maxsize \div 4,
                    INEPTXFD |-> InFifoSize(cfg)]
              ELSE DIEPTXF_RESET]
    /\ DIEPCTL = [i \in Endpoints |->
         IF i = 0 THEN [EpCtl("CTRL") EXCEPT !.MPSIZ = ep0config.in_maxsize]
         ELSE IF i = TxEp
              THEN [EpCtl(cfg.ep_mode) EXCEPT !.TXFNUM = TxEp,
                                              !.MPSIZ = cfg.in_maxsize,
                                              !.EPENA = first # NULL]
              ELSE [EPCTL_ZERO EXCEPT !.SNAK = TRUE]]
    /\ DOEPCTL = [i \in Endpoints |->
         IF i = 0 THEN [EpCtl("CTRL") EXCEPT !.MPSIZ = ep0config.out_maxsize]
         ELSE IF i = TxEp THEN [EPCTL_ZERO EXCEPT !.SNAK = TRUE, !.USBAEP = FALSE]
              ELSE [EPCTL_ZERO EXCEPT !.SNAK = TRUE]]
    /\ DAINTMSK = {OEPM(0), IEPM(0), IEPM(TxEp)}
    /\ allocLog = <<[next |-> otg_ram_reset, size |-> ep0config.in_maxsize \div 4],
                    [next |-> otg_ram_reset + ep0config.in_maxsize \div 4,
                     size |-> InFifoSize(cfg)]>>
    /\ oq = [q_buffer |-> [i \in 1..TxQueueCap |-> OutByte(i)], q_rdptr |-> rd,
             q_counter |-> 0, q_waiting |-> <<"writer">>]
    /\ iq = [q_buffer |-> <<0>>, q_wrptr |-> 0, q_counter |-> 0, q_waiting |-> <<>>]
    /\ fifo = <<>>
    /\ rxmem = [i \in 1..RxBufLen |-> 0]
    /\ job = [stage |-> "none", n |-> 0, rd0 |-> 0, wr0 |-> 0, max |-> 0,
           streaks |-> <<>>]
    /\ rxlog = [pops |-> 0, stored |-> {}, streaks |-> <<>>]
    /\ woken = <<>>
    /\ state = "USB_READY"
    /\ in_state = [ep \in Endpoints |->
                     [txqueued |-> FALSE,
                      txsize |-> IF ep = TxEp /\ first # NULL THEN Deref(first)
                                                              ELSE 0,
                      txcnt |-> 0, txbuf |-> 0]]
    /\ txpending = {}
    /\ thd_wait = PumpThread
    /\ pump = [pc |-> "created", ep |-> 0, done |-> FALSE, n |-> 0, fsav |-> 0,
               basepri |-> 0, sts |-> NULL, resumes |-> 0,
               res |-> [ep \in Endpoints |-> "none"]]
    /\ GAHBCFG = {"GINTMSK"}
    /\ GINTMSK = {"ENUMDNEM", "USBRSTM", "RXFLVLM", "OEPM", "IEPM"}
    /\ GINTSTS = {}
    /\ DIEPMSK = {"TOCM", "XFRCM"}
    /\ DIEPEMPMSK = IF first # NULL THEN {TxEp} ELSE {}
    /\ DIEPINT = [ep \in Endpoints |-> {}]
    /\ DIEPTSIZ = [ep \in Endpoints |->
         IF ep = TxEp /\ first # NULL
         THEN IF Deref(first) = 0
              THEN [PKTCNT |-> 1, XFRSIZ |-> 0]
              ELSE [PKTCNT |-> (Deref(first) + cfg.in_maxsize - 1)
                                 \div cfg.in_maxsize,
                    XFRSIZ |-> Deref(first)]
         ELSE [PKTCNT |-> 0, XFRSIZ |-> 0]]
    /\ pushes = [ep \in Endpoints |-> <<>>]
    /\ inCb = <<>>
    /\ fillret = NULL
    /\ txroom = room
    /\ xfer = [ep \in Endpoints |->
                 IF ep = TxEp /\ first # NULL THEN "started" ELSE "idle"]
    /\ nxfer = 0
    /\ rxq = <<>>
    /\ out_state = [ep \in Endpoints |->
                      [rxqueued |-> FALSE, rxsize |-> IF ep = 0 THEN RxBufLen ELSE 0,
                       rxcnt |-> 0, rxbuf |-> 0]]
    /\ setup_buf = [i \in 1..8 |-> 0]
    /\ DOEPINT = [ep \in Endpoints |-> {}]
    /\ DOEPMSK = {"STUPM", "XFRCM"}
    /\ outCb = <<>>
    /\ nrx = 0
    /\ ncycle = 0
    /\ fifoBusy = {}
    /\ acc = {}

\* No transfer was prepared yet.
InitTx(cfg, room, rd) == InitTxFrom(cfg, room, rd, NULL)

InitFill ==
  \E cfg \in TxConfigs, room \in {"unlimited", "any"}, rd \in {0, TxQueueCap - 3} :
    InitTx(cfg, room, rd)

NextFill ==
  \/ \E size \in TxSizes, queued \in BOOLEAN :
       usb_lld_prepare_transmit(TxEp, size, queued)
  \/ usb_lld_start_in(TxEp)
  \/ HwTxFifoEmpty(TxEp)
  \/ HwXferComplete(TxEp)
  \/ OTG1_IRQ
  \/ PumpCheck
  \/ PumpResume
  \/ PumpRx
  \/ PumpTest
  \/ PumpBegin
  \/ PumpFill
  \/ PumpPush
  \/ PumpEnd

SpecFill == InitFill /\ [][NextFill]_vars

(***************************************************************************)
(* Transmissions that follow a transfer of zero bytes (such as the status  *)
(* stage of a control transfer), started before.                           *)
(***************************************************************************)
InitRearm == \E cfg \in TxConfigs : InitTxFrom(cfg, "any", 0, Ptr(0))

SpecRearm == InitRearm /\ [][NextFill]_vars

(***************************************************************************)
(* The pump thread and the interrupt handler at work: transmission on      *)
(* endpoint TxEp, reception on endpoint 0, and the driver stopped and      *)
(* started again.                                                          *)
(***************************************************************************)
\* The sizes of the packets received.
RxSizes == {8}

\* The sizes of the transmissions: none, and whole packets and a rest.
PumpTxSizes == {t \in {0, 130} : t <= MaxTx}

InitPump == \E cfg \in {c \in TxConfigs : c.ep_mode = "BULK"} : InitTx(cfg, "any", 0)

NextPump ==
  \/ \E size \in PumpTxSizes : usb_lld_prepare_transmit(TxEp, size, FALSE)
  \/ usb_lld_start_in(TxEp)
  \/ HwTxFifoEmpty(TxEp)
  \/ HwXferComplete(TxEp)
  \/ \E kind \in {"SETUP", "OUT"}, bcnt \in RxSizes : HwRxPacket(kind, bcnt)
  \/ OTG1_IRQ
  \/ PumpCheck
  \/ PumpResume
  \/ PumpRx
  \/ PumpPop
  \/ PumpTest
  \/ PumpBegin
  \/ PumpFill
  \/ PumpPush
  \/ PumpEnd
  \/ usbStop
  \/ usbStart

SpecPump == InitPump /\ [][NextPump]_vars

\* The steps of the pump thread.
PumpStep ==
  \/ PumpCheck
  \/ PumpResume
  \/ PumpRx
  \/ PumpPop
  \/ PumpTest
  \/ PumpBegin
  \/ PumpFill
  \/ PumpPush
  \/ PumpEnd

(***************************************************************************)
(* Reception in a driver that stays ready, next to transmissions of one    *)
(* packet: the pump thread, when ready, is run by the scheduler in the     *)
(* end, and an interrupt that is pending and enabled is served in the end. *)
(***************************************************************************)
\* The size of the transmissions: one whole packet.
RxFairTxSizes == {t \in {64} : t <= MaxTx}

InitRxFair ==
  \E cfg \in {c \in TxConfigs : c.ep_mode = "BULK"} : InitTx(cfg, "any", 0)

NextRxFair ==
  \/ \E size \in RxFairTxSizes : usb_lld_prepare_transmit(TxEp, size, FALSE)
  \/ usb_lld_start_in(TxEp)
  \/ HwTxFifoEmpty(TxEp)
  \/ HwXferComplete(TxEp)
  \/ \E bcnt \in RxSizes : HwRxPacket("OUT", bcnt)
  \/ OTG1_IRQ
  \/ PumpStep

SpecRxFair ==
  InitRxFair /\ [][NextRxFair]_vars /\ WF_vars(PumpStep) /\ WF_vars(OTG1_IRQ)

\* The same, where moreover the controller raises the FIFO empty event of
\* the endpoint in the end, and the TX FIFO, read again and again, has room
\* in the end.
SpecTxFair ==
  /\ InitRxFair /\ [][NextRxFair]_vars
  /\ WF_vars(PumpStep) /\ WF_vars(OTG1_IRQ)
  /\ WF_vars(HwTxFifoEmpty(TxEp)) /\ SF_vars(PumpFillRoom)

(***************************************************************************)
(* The allocator over stops and starts of the driver: the driver is        *)
(* started, the bus is reset, endpoints are initialized and disabled, the  *)
(* driver is stopped and started again.                                    *)
(***************************************************************************)
\* The descriptors the endpoints are initialized with.
CycleConfigs == {c \in EpConfigs : c.ep_mode = "BULK"}

\* The bus reset, served by usb_lld_reset in a started driver.
CycleReset ==
  /\ state = "USB_READY"
  /\ usb_lld_reset

CycleInitEndpoint(ep, cfg) ==
  /\ state = "USB_READY"
  /\ usb_lld_init_endpoint(ep, cfg)

CycleDisableEndpoints ==
  /\ state = "USB_READY"
  /\ usb_lld_disable_endpoints

InitCycle == AllocIdle /\ FifoIdle /\ FillIdle

NextCycle ==
  \/ usbStart
  \/ usbStop
  \/ CycleReset
  \/ \E ep \in 1..MaxInitEp, cfg \in CycleConfigs : CycleInitEndpoint(ep, cfg)
  \/ CycleDisableEndpoints

SpecCycle == InitCycle /\ [][NextCycle]_vars

(***************************************************************************)
(* otg_rxfifo_handler at work on one receive status entry: the entry, the  *)
(* receive mode of the endpoint and its position are drawn from bounded    *)
(* sets.                                                                   *)
(***************************************************************************)
\* The largest byte count of a status entry.
MaxCnt == 12

\* The packet states GRXSTSP reports.
RxKinds == {"SETUP_DATA", "SETUP_COMP", "OUT_DATA", "OUT_COMP", "OUT_GLOBAL_NAK",
            "RESERVED"}

\* The kinds whose case reads the byte count and the data.
RxDataKinds == {"SETUP_DATA", "OUT_DATA"}

\* The entry the controller queues behind entry sts.
RxFollower(sts) ==
  [pktsts |-> IF sts.pktsts = "SETUP_DATA" THEN "SETUP_COMP" ELSE "OUT_COMP",
   ep |-> sts.ep, bcnt |-> 0]

\* The receive status entries: setup packets come on endpoint 0.
RxEntries ==
  {e \in [pktsts : RxKinds, ep : {0, 1}, bcnt : 0..MaxCnt] :
     e.pktsts \in {"SETUP_DATA", "SETUP_COMP"} => e.ep = 0}

InitRx ==
  /\ AllocIdle
  /\ \E sts \in RxEntries, queued \in BOOLEAN :
       \E rxsize \in 0..MaxCap, capIn \in 1..MaxCap :
         \E rxcnt \in 0..rxsize, wr \in 0..(capIn - 1) :
           \* a receive into a linear buffer has no queue
           /\ ~queued => capIn = 1
           \* the entries that carry no payload are handled the same way
           \* whatever the endpoint receives into: fewer cases of it
           /\ sts.pktsts \notin RxDataKinds =>
                rxsize \in {0, 4} /\ (queued => capIn = 4)
           /\ FillIdleWith(<<sts, RxFollower(sts)>>,
                [OutIdle EXCEPT ![sts.ep] = [rxqueued |-> queued, rxsize |-> rxsize,
                                             rxcnt |-> rxcnt, rxbuf |-> rxcnt]])
           /\ iq = [q_buffer |-> [i \in 1..capIn |-> 0], q_wrptr |-> wr,
                    q_counter |-> 0, q_waiting |-> <<"reader">>]
           /\ job = [stage |-> "idle", n |-> sts.bcnt, rd0 |-> 0, wr0 |-> wr,
                     max |-> 0, streaks |-> <<>>]
  /\ oq = [q_buffer |-> <<0>>, q_rdptr |-> 0, q_counter |-> 1, q_waiting |-> <<>>]
  /\ fifo = <<>>
  /\ rxmem = [i \in 1..MemLen |-> 0]
  /\ rxlog = [pops |-> 0, stored |-> {}, streaks |-> <<>>]
  /\ woken = <<>>

\* otg_rxfifo_handler pops the oldest entry and handles it.
RxFifoHandler ==
  /\ job.stage = "idle"
  /\ rxq # <<>>
  /\ LET r == otg_rxfifo_handler(Head(rxq))
     IN /\ setup_buf' = r.setup_buf
        /\ rxmem' = r.rxmem
        /\ iq' = r.iq
        /\ woken' = r.woken
        /\ out_state' = r.out_state
        /\ rxlog' = [pops |-> r.pops, stored |-> r.stored, streaks |-> <<>>]
  /\ rxq' = Tail(rxq)
  /\ job' = [job EXCEPT !.stage = "handled"]
  /\ UNCHANGED <<allocVars, oq, fifo, state, in_state, txpending, thd_wait, pump,
                 GAHBCFG, GINTMSK, GINTSTS, DIEPMSK, DIEPEMPMSK, DIEPINT,
                 DIEPTSIZ, pushes, inCb, fillret, txroom, xfer, nxfer, DOEPINT,
                 DOEPMSK, outCb, nrx, ncycle, fifoBusy, acc>>

NextRx == RxFifoHandler

SpecRx == InitRx /\ [][NextRx]_vars

(***************************************************************************)
(* A receive into a linear buffer on endpoint 1: the transfer is prepared  *)
(* by usb_lld_prepare_receive, the controller delivers the packets the     *)
(* prepared transfer lets in, and otg_rxfifo_handler handles their status  *)
(* entries one by one.                                                     *)
(***************************************************************************)
\* The endpoint that receives.
RxEp == 1

\* out_maxsize of the endpoint.
RxPacketSizes == {4, 8}

\* pcnt as usb_lld_prepare_receive computes it for DOEPTSIZ.PKTCNT.
RxPktCnt(rxsize, maxsize) == (rxsize + maxsize - 1) \div maxsize

InitReceive ==
  /\ \E rxsize \in 1..MaxCap, maxsize \in RxPacketSizes :
       /\ AllocIdleWith([i \in Endpoints |->
            IF i = RxEp THEN Ptr(Cfg("BULK", FALSE, TRUE, 64, maxsize, 1))
                        ELSE NULL])
       /\ FillIdleWith(<<>>,
            [OutIdle EXCEPT ![RxEp] = [rxqueued |-> FALSE, rxsize |-> rxsize,
                                       rxcnt |-> 0, rxbuf |-> 0]])
  /\ oq = [q_buffer |-> <<0>>, q_rdptr |-> 0, q_counter |-> 1, q_waiting |-> <<>>]
  /\ iq = [q_buffer |-> <<0>>, q_wrptr |-> 0, q_counter |-> 0, q_waiting |-> <<>>]
  /\ fifo = <<>>
  /\ rxmem = [i \in 1..MemLen |-> 0]
  /\ job = [stage |-> "receiving", n |-> 0, rd0 |-> 0, wr0 |-> 0, max |-> 0,
            streaks |-> <<>>]
  /\ rxlog = [pops |-> 0, stored |-> {}, streaks |-> <<>>]
  /\ woken = <<>>

\* The controller takes in a packet of cnt bytes: DOEPTSIZ lets in PKTCNT
\* packets of up to out_maxsize bytes each, and a packet shorter than
\* out_maxsize ends the transfer.
HwOutPacket(cnt) ==
  /\ job.stage = "receiving"
  /\ cnt <= Deref(epc[RxEp]).out_maxsize
  /\ nrx < RxPktCnt(out_state[RxEp].rxsize, Deref(epc[RxEp]).out_maxsize)
  /\ LET last == \/ cnt < Deref(epc[RxEp]).out_maxsize
                 \/ nrx + 1 = RxPktCnt(out_state[RxEp].rxsize,
                                       Deref(epc[RxEp]).out_maxsize)
     IN /\ rxq' = rxq \o <<[pktsts |-> "OUT_DATA", ep |-> RxEp, bcnt |-> cnt]>>
                     \o (IF last THEN <<[pktsts |-> "OUT_COMP", ep |-> RxEp,
                                         bcnt |-> 0]>>
                                 ELSE <<>>)
        /\ job' = [job EXCEPT !.stage = IF last THEN "complete" ELSE @,
                              !.n = @ + cnt]
  /\ nrx' = nrx + 1
  /\ UNCHANGED <<allocVars, oq, iq, fifo, rxmem, rxlog, woken, state, in_state,
                 txpending, thd_wait, pump, GAHBCFG, GINTMSK, GINTSTS, DIEPMSK,
                 DIEPEMPMSK, DIEPINT, DIEPTSIZ, pushes, inCb, fillret, txroom,
                 xfer, nxfer, out_state, setup_buf, DOEPINT, DOEPMSK, outCb,
                 ncycle, fifoBusy, acc>>

\* otg_rxfifo_handler pops the oldest entry and handles it; rxlog adds up
\* what the handler popped and stored since the receive was prepared.
RxDrain ==
  /\ rxq # <<>>
  /\ LET r == otg_rxfifo_handler(Head(rxq))
     IN /\ setup_buf' = r.setup_buf
        /\ rxmem' = r.rxmem
        /\ iq' = r.iq
        /\ woken' = r.woken
        /\ out_state' = r.out_state
        /\ rxlog' = [rxlog EXCEPT !.pops = @ + r.pops,
                                  !.stored = @ \cup r.stored]
  /\ rxq' = Tail(rxq)
  /\ UNCHANGED <<allocVars, oq, fifo, job, state, in_state, txpending, thd_wait,
                 pump, GAHBCFG, GINTMSK, GINTSTS, DIEPMSK, DIEPEMPMSK, DIEPINT,
                 DIEPTSIZ, pushes, inCb, fillret, txroom, xfer, nxfer, DOEPINT,
                 DOEPMSK, outCb, nrx, ncycle, fifoBusy, acc>>

NextReceive ==
  \/ \E cnt \in 0..MaxCnt : HwOutPacket(cnt)
  \/ RxDrain

SpecReceive == InitReceive /\ [][NextReceive]_vars

(***************************************************************************)
(* Properties of the allocator.                                            *)
(***************************************************************************)
\* C1 (as stated): within one activation cycle the offsets returned by
\* otg_ram_alloc are strictly increasing and every returned offset plus
\* its size is at most the FIFO capacity.
C1_StrictlyIncreasing ==
  \A i \in 1..Len(allocLog) :
    /\ allocLog[i].next + allocLog[i].size <= STM32_OTG_FIFO_MEM_SIZE
    /\ i > 1 => allocLog[i-1].next < allocLog[i].next

\* C1 (amended): the returned offsets never decrease, they increase strictly
\* after every allocation of a non-zero size (a zero-size request returns
\* the offset the next request gets), and every returned offset plus its
\* size is at most the FIFO capacity.
C1_Monotonic ==
  \A i \in 1..Len(allocLog) :
    /\ allocLog[i].next + allocLog[i].size <= STM32_OTG_FIFO_MEM_SIZE
    /\ i > 1 => /\ allocLog[i-1].next <= allocLog[i].next
                /\ allocLog[i-1].size > 0 => allocLog[i-1].next < allocLog[i].next

\* A cycle with three allocations, one of them of zero words.
C1_Witness ==
  /\ Len(allocLog) = 3
  /\ allocLog[2].size = 0
  /\ allocLog[3].size > 0

\* C2: in every reachable state usbp->pmnext is at most the FIFO capacity.
C2_PmnextWithinCapacity == pmnext <= STM32_OTG_FIFO_MEM_SIZE

\* The scenario of C3: a reset allocator served a 16 word request and then
\* a 32 word request.
C3_Scenario ==
  /\ Len(allocLog) = 2
  /\ allocLog[1].size = 16
  /\ allocLog[2].size = 32

\* C3 (as stated): the two requests get offsets 0 and 16 and the allocator
\* ends at 48.
C3_OffsetsFromZero ==
  C3_Scenario =>
    /\ allocLog[1].next = 0
    /\ allocLog[2].next = 16
    /\ pmnext = 48

\* C3 (amended): the two requests get the offsets B and B + 16, where B is
\* the number of words of the receive FIFO, the allocator ends at B + 48,
\* and the first offset is the start address programmed into DIEPTXF0.
C3_OffsetsFromRxFifoEnd ==
  C3_Scenario =>
    /\ allocLog[1].next = STM32_USB_OTG1_RX_FIFO_SIZE \div 4
    /\ allocLog[2].next = STM32_USB_OTG1_RX_FIFO_SIZE \div 4 + 16
    /\ pmnext = STM32_USB_OTG1_RX_FIFO_SIZE \div 4 + 48
    /\ DIEPTXF[0].INEPTXSA = allocLog[1].next

C3_Witness == C3_Scenario /\ ~halted

\* C4: an allocation that would exceed the FIFO capacity stops the system
\* for good: the step that overflows sets the fault state and programs no
\* TX FIFO register, no endpoint control register and returns no offset,
\* and no step is taken from the fault state.
C4_AllocOverflowFatal ==
  [][ /\ ~halted
      /\ pmnext' > STM32_OTG_FIFO_MEM_SIZE =>
           /\ halted'
           /\ DIEPTXF' = DIEPTXF
           /\ DIEPCTL' = DIEPCTL
           /\ allocLog' = allocLog ]_vars

\* The system stopped on an overflowing request.
C4_Witness == halted /\ pmnext > STM32_OTG_FIFO_MEM_SIZE

\* C32: usb_lld_init_endpoint handles the OUT direction whatever the IN
\* direction is: with an out callback DOEPCTL of the endpoint is written
\* with the endpoint type, USBAEP and out_maxsize, and the OUT bit of the
\* endpoint is added to DAINTMSK; without one USBAEP is cleared and the bit
\* is removed.  This is so as well when the IN half stops in the assertion
\* of the allocator.  No other OUT endpoint and no other OUT bit changes, and
\* the allocator moves only by what the IN half allocates.
C32_OutHalf ==
  [][\A ep \in 1..USB_MAX_ENDPOINTS, cfg \in EpConfigs :
       usb_lld_init_endpoint(ep, cfg) =>
         /\ cfg.out_cb =>
              /\ DOEPCTL'[ep] = [EPCTL_ZERO EXCEPT !.USBAEP = TRUE,
                                                   !.EPTYP = cfg.ep_mode,
                                                   !.MPSIZ = cfg.out_maxsize]
              /\ OEPM(ep) \in DAINTMSK'
         /\ ~cfg.out_cb =>
              /\ DOEPCTL'[ep] = [DOEPCTL[ep] EXCEPT !.USBAEP = FALSE]
              /\ OEPM(ep) \notin DAINTMSK'
         /\ \A i \in Endpoints \ {ep} :
              /\ DOEPCTL'[i] = DOEPCTL[i]
              /\ OEPM(i) \in DAINTMSK' <=> OEPM(i) \in DAINTMSK
         /\ pmnext' = pmnext + (IF cfg.in_cb THEN InFifoSize(cfg) ELSE 0)]_vars

\* Endpoint 1 has its OUT direction active and no IN direction; endpoint 2
\* had its OUT direction active and lost it to an IN-only configuration.
C32_Witness ==
  /\ epc[1] = Ptr(Cfg("BULK", FALSE, TRUE, 64, 64, 1))
  /\ DOEPCTL[1].USBAEP
  /\ OEPM(1) \in DAINTMSK
  /\ epc[2] = Ptr(Cfg("BULK", TRUE, FALSE, 64, 64, 2))
  /\ ~DOEPCTL[2].USBAEP
  /\ DOEPCTL[2].MPSIZ = 64
  /\ OEPM(2) \notin DAINTMSK

\* What usb_lld_init_endpoint(ep, cfg) does to the allocator and to the TX
\* FIFO register of the endpoint when the region it takes is of size words.
InHalfAllocates(ep, cfg, size) ==
  IF cfg.in_cb
  THEN /\ pmnext' = pmnext + size
       /\ ~halted' => /\ DIEPTXF'[ep] = [INEPTXSA |-> pmnext, INEPTXFD |-> size]
                      /\ allocLog' = Append(allocLog, [next |-> pmnext,
                                                       size |-> size])
  ELSE /\ pmnext' = pmnext
       /\ allocLog' = allocLog
       /\ DIEPTXF'[ep] = DIEPTXF_RESET

\* C33 (as stated): with an in callback usb_lld_init_endpoint allocates a TX
\* FIFO region of exactly (in_maxsize / 4) * in_multiplier words, for every
\* value of in_multiplier, and pmnext advances by that amount; without an in
\* callback nothing is allocated and pmnext is unchanged.
C33_SizeTimesMultiplier ==
  [][\A ep \in 1..USB_MAX_ENDPOINTS, cfg \in EpConfigs :
       usb_lld_init_endpoint(ep, cfg) =>
         InHalfAllocates(ep, cfg, (cfg.in_maxsize \div 4) * cfg.in_multiplier)]_vars

\* C33 (amended): the region is of (in_maxsize / 4) * in_multiplier words
\* for an in_multiplier of 1 or more, and of in_maxsize / 4 words for an
\* in_multiplier of 0, which is taken as 1.
C33_SizeTimesMultiplierZeroAsOne ==
  [][\A ep \in 1..USB_MAX_ENDPOINTS, cfg \in EpConfigs :
       usb_lld_init_endpoint(ep, cfg) =>
         InHalfAllocates(ep, cfg,
           (cfg.in_maxsize \div 4) *
             (IF cfg.in_multiplier = 0 THEN 1 ELSE cfg.in_multiplier))]_vars

\* Endpoint 1 got 128 words for in_maxsize 512 and in_multiplier 0, right
\* behind the region of endpoint 0, and endpoint 2 got 32 words for
\* in_maxsize 64 and in_multiplier 2.
C33_Witness ==
  /\ ~halted
  /\ epc[1] = Ptr(Cfg("ISOC", TRUE, TRUE, 512, 64, 0))
  /\ DIEPTXF[1] = [INEPTXSA |-> otg_ram_reset + 16, INEPTXFD |-> 128]
  /\ epc[2] = Ptr(Cfg("BULK", TRUE, FALSE, 64, 64, 2))
  /\ DIEPTXF[2] = [INEPTXSA |-> otg_ram_reset + 144, INEPTXFD |-> 32]
  /\ pmnext = otg_ram_reset + 176

\* The IN endpoints other than endpoint 0 that are active: activated by
\* usb_lld_init_endpoint and not deactivated since.
ActiveIn == {i \in 1..USB_MAX_ENDPOINTS : DIEPCTL[i].USBAEP}

\* C34: once usb_lld_reset has run, the TX FIFO region of endpoint 0 starts
\* at the base of the allocator, and the region of every other active IN
\* endpoint starts at a strictly higher address.
C34_Ep0RegionLowest ==
  epc[0] # NULL =>
    /\ DIEPTXF[0].INEPTXSA = otg_ram_reset
    /\ \A i \in ActiveIn : DIEPTXF[i].INEPTXSA > DIEPTXF[0].INEPTXSA

\* The USBAEP bit of endpoint i as the controller holds it: the variables
\* DIEPCTL and DOEPCTL hold what the driver wrote last, and the controller
\* keeps the bit of endpoint 0 at 1 whatever is written (the attempt to
\* disable endpoint 0 is ignored by the hardware).
UsbAep(ctl, i) == i = 0 \/ ctl[i].USBAEP

TxRegion(i) ==
  DIEPTXF[i].INEPTXSA .. (DIEPTXF[i].INEPTXSA + DIEPTXF[i].INEPTXFD - 1)

\* C36: in every state after usb_lld_reset the TX FIFO regions of the active
\* IN endpoints, endpoint 0 among them, are pairwise disjoint and lie above
\* the receive FIFO, which takes the words below the allocator base.
C36_RegionsDisjoint ==
  epc[0] # NULL =>
    \A i \in {0} \cup ActiveIn :
      /\ \A w \in TxRegion(i) : w >= otg_ram_reset
      /\ \A j \in ({0} \cup ActiveIn) \ {i} : TxRegion(i) \cap TxRegion(j) = {}

(***************************************************************************)
(* Properties of the transfer primitives.                                  *)
(***************************************************************************)
\* C5: once the words pushed by otg_fifo_write_from_queue(n) have been popped
\* by otg_fifo_read_to_queue(n), the n bytes of the input queue from its
\* starting write cursor on are the n bytes of the output queue from its
\* starting read cursor on, in order, and no word is left over.
C5_RoundTrip ==
  job.stage = "queued" =>
    /\ fifo = <<>>
    /\ \A k \in 0..(job.n - 1) :
         ByteAt(iq.q_buffer, (job.wr0 + k) % Len(iq.q_buffer))
           = ByteAt(oq.q_buffer, (job.rd0 + k) % Len(oq.q_buffer))

\* A round trip of 7 bytes that starts 2 bytes before the end of the output
\* buffer and 3 bytes before the end of the input buffer.
C5_Witness ==
  /\ job.stage = "queued"
  /\ job.n = 7
  /\ job.rd0 = Len(oq.q_buffer) - 2
  /\ job.wr0 = Len(iq.q_buffer) - 3

\* C6: otg_fifo_write_from_queue leaves the read cursor at (start + n) mod
\* capacity and otg_fifo_read_to_queue leaves the write cursor at (start + n)
\* mod capacity, each moves exactly ceil(n / 4) words, and each cursor lies
\* inside its buffer on return.
C6_CursorsAndWords ==
  /\ job.stage = "pushed" =>
       /\ oq.q_rdptr = (job.rd0 + job.n) % Len(oq.q_buffer)
       /\ oq.q_rdptr \in 0..(Len(oq.q_buffer) - 1)
       /\ Len(fifo) = (job.n + 3) \div 4
  /\ job.stage = "queued" =>
       /\ iq.q_wrptr = (job.wr0 + job.n) % Len(iq.q_buffer)
       /\ iq.q_wrptr \in 0..(Len(iq.q_buffer) - 1)
       /\ rxlog.pops = (job.n + 3) \div 4

\* A reception of 10 bytes that starts 2 bytes before the end of the buffer.
C6_Witness ==
  /\ job.stage = "queued"
  /\ job.n = 10
  /\ job.wr0 = Len(iq.q_buffer) - 2
  /\ iq.q_wrptr = 8

\* C7: otg_fifo_read_to_buffer(buf, n, max) pops exactly ceil(n / 4) words
\* and stores to no byte of buf at an index of max or more.
C7_ReadToBufferCopiesAtMostMax ==
  job.stage = "buffered" =>
    /\ rxlog.pops = (job.n + 3) \div 4
    /\ \A i \in rxlog.stored : i < job.max

Min(a, b) == IF a <= b THEN a ELSE b

\* The streaks of whole words in which n bytes are moved from or to a
\* circular buffer of cap bytes at cursor cur: each streak is the smaller
\* of the whole words still needed and the whole words left before the end
\* of the buffer; a word that lies across the end of the buffer, and a last
\* partial word, go byte by byte.
RECURSIVE Streaks(_, _, _)
Streaks(cap, cur, n) ==
  IF n < 4 THEN <<>>
  ELSE LET k == Min(n \div 4, (cap - cur) \div 4)
       IN IF k > 0 THEN <<k>> \o Streaks(cap, (cur + 4 * k) % cap, n - 4 * k)
                   ELSE Streaks(cap, (cur + 4) % cap, n - 4)

\* otg_fifo_write_from_queue pushes whole words in these streaks.
WriteStreaksAsSpecified ==
  job.stage \in {"pushed", "queued", "buffered"} =>
    job.streaks = Streaks(Len(oq.q_buffer), job.rd0, job.n)

\* C27: otg_fifo_read_to_queue pops whole words in streaks of the smaller
\* of the words still needed and the whole words left before the write
\* cursor reaches the end of the buffer, as otg_fifo_write_from_queue
\* pushes them with the read cursor, and goes byte by byte only for a word
\* across the end of the buffer and for a last partial word.
C27_ReadStreaksAsWrite ==
  /\ WriteStreaksAsSpecified
  /\ job.stage = "queued" =>
       rxlog.streaks = Streaks(Len(iq.q_buffer), job.wr0, job.n)

\* C28: otg_fifo_write_from_queue(n) and otg_fifo_read_to_queue(n), once the
\* words are moved, add exactly n to the queue's q_counter and make every
\* thread of q_waiting ready, in the order of the list, leaving the list
\* empty; this is one step, and it happens for n = 0 as well.
C28_QueueUpdated ==
  [][/\ job.stage = "idle" /\ job'.stage = "pushed" =>
        /\ Len(fifo') = Len(fifo) + (job.n + 3) \div 4
        /\ oq'.q_counter = oq.q_counter + job.n
        /\ oq'.q_waiting = <<>>
        /\ woken' = woken \o oq.q_waiting
     /\ job.stage = "pushed" /\ job'.stage = "queued" =>
        /\ rxlog'.pops = (job.n + 3) \div 4
        /\ iq'.q_counter = iq.q_counter + job.n
        /\ iq'.q_waiting = <<>>
        /\ woken' = woken \o iq.q_waiting]_vars

\* Both primitives have run with n = 0 on queues with two waiting threads each.
C28_Witness ==
  /\ job.stage = "queued"
  /\ job.n = 0
  /\ woken = Writers \o Readers
  /\ oq.q_waiting = <<>>
  /\ iq.q_waiting = <<>>
  /\ oq.q_counter = Len(oq.q_buffer)
  /\ iq.q_counter = 0

(***************************************************************************)
(* Properties of the receive dispatcher.                                   *)
(***************************************************************************)
\* C29: for an OUT_DATA entry with byte count cnt on endpoint ep,
\* otg_rxfifo_handler stores the payload into the input queue when the
\* endpoint receives into a queue, and otherwise into the linear buffer at
\* its current position rxbuf, which advances by cnt; in both cases rxcnt
\* grows by exactly cnt and exactly ceil(cnt / 4) words are popped.  Nothing
\* else of the receive state changes.
C29_OutDataDispatch ==
  [][job.stage = "idle" /\ job'.stage = "handled" /\ Head(rxq).pktsts = "OUT_DATA" =>
       LET cnt == Head(rxq).bcnt
           ep == Head(rxq).ep
           osp == out_state[ep]
           cap == Len(iq.q_buffer)
       IN /\ out_state'[ep].rxcnt = osp.rxcnt + cnt
          /\ rxlog'.pops = (cnt + 3) \div 4
          /\ \A e \in Endpoints \ {ep} : out_state'[e] = out_state[e]
          /\ out_state'[ep].rxqueued = osp.rxqueued
          /\ out_state'[ep].rxsize = osp.rxsize
          /\ setup_buf' = setup_buf
          /\ osp.rxqueued =>
               /\ rxmem' = rxmem
               /\ rxlog'.stored = {}
               /\ iq'.q_counter = iq.q_counter + cnt
               /\ iq'.q_wrptr = (iq.q_wrptr + cnt) % cap
               /\ \A i \in 0..(cnt - 1) :
                    i >= cnt - cap =>
                      iq'.q_buffer[((iq.q_wrptr + i) % cap) + 1] = OutByte(i + 1)
          /\ ~osp.rxqueued =>
               /\ iq' = iq
               /\ out_state'[ep].rxbuf = osp.rxbuf + cnt
               /\ \A o \in rxlog'.stored : o >= osp.rxbuf
               /\ rxlog'.stored # {} => osp.rxbuf \in rxlog'.stored
               /\ \A o \in 0..(Len(rxmem) - 1) :
                    rxmem'[o + 1] = IF o \in rxlog'.stored
                                    THEN OutByte(o - osp.rxbuf + 1)
                                    ELSE rxmem[o + 1]]_vars

\* A packet of 6 bytes was stored at position 4 of a linear buffer of 10.
C29_Witness ==
  /\ job.stage = "handled"
  /\ job.n = 6
  /\ out_state[1] = [rxqueued |-> FALSE, rxsize |-> 10, rxcnt |-> 10, rxbuf |-> 10]
  /\ rxlog.pops = 2
  /\ rxlog.stored = 4..11
  /\ rxmem[5] = OutByte(1)

\* C30: for a SETUP_DATA entry with byte count cnt, whatever cnt is,
\* otg_rxfifo_handler pops ceil(cnt / 4) words and stores at most 8 bytes,
\* all of them inside the setup buffer; the OUT transfer state (rxcnt, rxbuf),
\* the receive buffer and the input queue are not changed.
C30_SetupData ==
  [][job.stage = "idle" /\ job'.stage = "handled" /\ Head(rxq).pktsts = "SETUP_DATA" =>
       LET cnt == Head(rxq).bcnt
       IN /\ rxlog'.pops = (cnt + 3) \div 4
          /\ rxlog'.stored \subseteq 0..7
          /\ Cardinality(rxlog'.stored) = 4 * Min(2, (cnt + 3) \div 4)
          /\ \A o \in 0..7 :
               setup_buf'[o + 1] = IF o \in rxlog'.stored THEN OutByte(o + 1)
                                                         ELSE setup_buf[o + 1]
          /\ out_state' = out_state
          /\ rxmem' = rxmem
          /\ iq' = iq
          /\ woken' = woken]_vars

\* A setup entry of 12 bytes was handled: three words popped, two stored.
C30_Witness ==
  /\ job.stage = "handled"
  /\ job.n = 12
  /\ rxlog.pops = 3
  /\ rxlog.stored = 0..7
  /\ setup_buf = [i \in 1..8 |-> OutByte(i)]

\* C31: one run of otg_rxfifo_handler pops exactly one receive status entry;
\* for SETUP_COMP, OUT_GLOBAL_NAK, OUT_COMP and any other kind that is not
\* SETUP_DATA or OUT_DATA it pops no data word, whatever the byte count
\* field holds, and leaves the transfer state of every endpoint, the setup
\* buffer, the receive buffer and the queues as they were.
C31_OneEntryOthersIgnored ==
  [][job.stage = "idle" /\ job'.stage = "handled" =>
       /\ rxq' = Tail(rxq)
       /\ Head(rxq).pktsts \notin RxDataKinds =>
            /\ rxlog'.pops = 0
            /\ rxlog'.stored = {}
            /\ out_state' = out_state
            /\ in_state' = in_state
            /\ setup_buf' = setup_buf
            /\ rxmem' = rxmem
            /\ iq' = iq
            /\ oq' = oq
            /\ woken' = woken]_vars

\* An entry with a byte count of 5 that is not a data entry was handled on an
\* endpoint with a queued receive under way: nothing was popped, the entry
\* behind it is still there.
C31_Witness ==
  /\ job.stage = "handled"
  /\ job.n = 5
  /\ rxlog.pops = 0
  /\ rxq = <<[pktsts |-> "OUT_COMP", ep |-> 1, bcnt |-> 0]>>
  /\ out_state[1] = [rxqueued |-> TRUE, rxsize |-> 4, rxcnt |-> 3, rxbuf |-> 3]
  /\ iq.q_waiting = <<"reader">>

\* C37: in a receive into a linear buffer of rxsize bytes, whatever packets
\* the OUT_DATA entries report, rxcnt never exceeds rxsize (so that the copy
\* limit rxsize - rxcnt handed to otg_fifo_read_to_buffer never wraps), and
\* no byte is stored beyond the rxsize bytes of the buffer.
C37_LinearReceiveBounded ==
  /\ out_state[RxEp].rxcnt <= out_state[RxEp].rxsize
  /\ rxlog.stored \subseteq 0..(out_state[RxEp].rxsize - 1)

(***************************************************************************)
(* Properties of the fill engine.                                          *)
(***************************************************************************)
CeilDiv(a, b) == (a + b - 1) \div b

\* The packets of a transfer of T bytes with max packet size M: the whole
\* packets, then the rest when there is one.
Packets(T, M) ==
  [i \in 1..CeilDiv(T, M) |-> IF i * M <= T THEN M ELSE T - (i - 1) * M]

IsPrefix(a, b) == Len(a) <= Len(b) /\ \A i \in 1..Len(a) : a[i] = b[i]

\* C8 as stated: with unlimited room in the TX FIFO, otg_txfifo_handler
\* returns TRUE having pushed ceil(T/M) packets when T > 0 and one
\* zero-length packet when T = 0.
C8_OnePushForEmptyTransfer ==
  (fillret # NULL /\ txroom = "unlimited") =>
    LET r == Deref(fillret)
    IN /\ r.done
       /\ r.pushed = IF r.txsize = 0 THEN 1 ELSE CeilDiv(r.txsize, r.maxsize)

\* C8 amended: with unlimited room in the TX FIFO, otg_txfifo_handler returns
\* TRUE having pushed exactly ceil(T/M) packets, which is no packet at all
\* when T = 0.
C8_OnePushPerPacket ==
  (fillret # NULL /\ txroom = "unlimited") =>
    LET r == Deref(fillret)
    IN /\ r.done
       /\ r.txcnt = r.txsize
       /\ r.pushed = CeilDiv(r.txsize, r.maxsize)

C8_Witness ==
  /\ txroom = "unlimited"
  /\ fillret # NULL
  /\ Deref(fillret).done
  /\ Deref(fillret).txsize = 130
  /\ Deref(fillret).maxsize = 64
  /\ Deref(fillret).pushed = 3

\* C9: whatever the returns of FALSE between them, no packet of a size
\* strictly between 0 and the max packet size is pushed unless it is the
\* last packet of the transfer.
C9_ShortPacketOnlyLast ==
  \A ep \in Endpoints :
    \A i \in 1..Len(pushes[ep]) :
      (epc[ep] # NULL /\ 0 < pushes[ep][i].n /\ pushes[ep][i].n < in_maxsize(ep))
        => /\ i = Len(pushes[ep])
           /\ SumN(pushes[ep]) = in_state[ep].txsize

C9_Witness ==
  /\ txroom = "any"
  /\ in_maxsize(TxEp) = 64
  /\ Sizes(pushes[TxEp]) = <<64, 64, 2>>
  /\ pushes[TxEp][2].resumed
  /\ pushes[TxEp][3].resumed
  /\ fillret # NULL /\ ~Deref(fillret).done

\* C10: a transfer of T bytes from a linear buffer is pushed as whole packets
\* of M bytes followed by the rest of T mod M bytes, in that order (64, 64, 2
\* for T = 130 and M = 64); txcnt is txsize after the last packet; the IN
\* callback of the endpoint is invoked only after the last packet was pushed.
C10_PacketsThenCallback ==
  /\ \A ep \in Endpoints :
       (epc[ep] # NULL /\ ~in_state[ep].txqueued) =>
         LET st == in_state[ep]
             want == Packets(st.txsize, in_maxsize(ep))
         IN /\ IsPrefix(Sizes(pushes[ep]), want)
            /\ st.txcnt = SumN(pushes[ep])
            /\ Len(pushes[ep]) = Len(want) => st.txcnt = st.txsize
  /\ \A i \in 1..Len(inCb) :
       ~inCb[i].txqueued =>
         /\ inCb[i].pushed = Packets(inCb[i].txsize, inCb[i].maxsize)
         /\ inCb[i].txcnt = inCb[i].txsize

C10_Witness ==
  \E i \in 1..Len(inCb) :
    /\ inCb[i].ep = TxEp
    /\ ~inCb[i].txqueued
    /\ inCb[i].txsize = 130
    /\ inCb[i].maxsize = 64
    /\ inCb[i].pushed = <<64, 64, 2>>
    /\ inCb[i].txcnt = 130

\* C21: otg_txfifo_handler returns TRUE only when txcnt >= txsize, and
\* returns FALSE only when txcnt < txsize and the room read from DTXFSTS,
\* in bytes, is less than the size of the next packet; the turn of the loop
\* that returns pushes nothing and changes neither txcnt nor the source of
\* the transfer (txbuf, the read cursor and the counter of the queue).
C21_FillReturns ==
  [][pump.pc = "fill" /\ pump'.pc = "end" =>
       LET st == in_state[pump.ep]
       IN /\ in_state' = in_state
          /\ pushes' = pushes
          /\ oq' = oq
          /\ pump'.done => st.txcnt >= st.txsize
          /\ ~pump'.done =>
               /\ st.txcnt < st.txsize
               /\ pump'.fsav * 4 < TxPacketSize(st, in_maxsize(pump.ep), 0)]_vars

\* The fill has returned FALSE after the first packet of 64 bytes: one word
\* of room was reported for the second.
C21_Witness ==
  /\ pump.pc = "end"
  /\ ~pump.done
  /\ pump.fsav = 1
  /\ in_maxsize(pump.ep) = 64
  /\ in_state[pump.ep].txsize = 130
  /\ in_state[pump.ep].txcnt = 64
  /\ Sizes(pushes[pump.ep]) = <<64>>

(***************************************************************************)
(* Properties of the pump thread and the interrupt handler.                *)
(***************************************************************************)
\* The pump has completed a pass over the endpoints and is back at the top
\* of its loop.
PassDone == pump.pc = "check" /\ pump.ep = USB_MAX_ENDPOINTS

\* The transfer of ep is under way and not every byte of it was pushed.
TxUnfinished(ep) == xfer[ep] = "started" /\ ~TxDone(in_state[ep])

\* C11 (as stated): after a full pass of the pump every endpoint whose
\* txpending bit is set had a fill that returned not done in that pass, and
\* every endpoint whose bit is clear has no transfer under way or one that
\* is fully pushed.
C11_PendingIffNotDone ==
  PassDone =>
    \A ep \in Endpoints :
      /\ ep \in txpending => pump.res[ep] = "notdone"
      /\ ep \notin txpending => ~TxUnfinished(ep)

\* C11 (amended): after a full pass of the pump in a driver that was not
\* stopped, every endpoint whose fill returned not done in that pass has
\* its FIFO empty interrupt enabled in DIEPEMPMSK or has been flagged in
\* txpending by the interrupt handler since, and so has every endpoint with
\* an unfinished transfer under way.
C11_NotDoneIsRearmed ==
  PassDone /\ ncycle = 0 =>
    \A ep \in Endpoints :
      /\ pump.res[ep] = "notdone" => ep \in DIEPEMPMSK \cup txpending
      /\ TxUnfinished(ep) => ep \in DIEPEMPMSK \cup txpending

C11_Witness ==
  /\ PassDone
  /\ ncycle = 0
  /\ pump.res[TxEp] = "notdone"
  /\ TxUnfinished(TxEp)
  /\ TxEp \in DIEPEMPMSK
  /\ TxEp \notin txpending

\* C12 (as stated): the txpending bit of an endpoint is set only if the
\* endpoint has a transfer under way with txcnt < txsize.
C12_PendingOnlyUnfinished ==
  \A ep \in Endpoints : ep \in txpending => TxUnfinished(ep)

\* C12 (amended): the txpending bit of an endpoint becomes set only on a
\* FIFO empty event (TXFE) of the endpoint whose interrupt is enabled in
\* DIEPEMPMSK, and the step that sets it disables that interrupt; the
\* interrupt becomes enabled only by usb_lld_start_in of a prepared
\* transfer, of any size, or by the pump after a fill that was not done.
C12_PendingOnlyOnArmedTxfe ==
  [][\A ep \in Endpoints :
       /\ ep \in txpending' /\ ep \notin txpending =>
            /\ "TXFE" \in DIEPINT[ep]
            /\ ep \in DIEPEMPMSK
            /\ ep \notin DIEPEMPMSK'
       /\ ep \in DIEPEMPMSK' /\ ep \notin DIEPEMPMSK =>
            \/ xfer[ep] = "prepared" /\ xfer'[ep] = "started"
            \/ pump.pc = "end" /\ pump.ep = ep /\ ~pump.done]_vars

C12_Witness ==
  /\ TxEp \in txpending
  /\ TxEp \notin DIEPEMPMSK
  /\ xfer[TxEp] = "started"
  /\ in_state[TxEp].txsize = 0
  /\ in_state[TxEp].txcnt = 0

InFill == pump.pc \in {"fill", "push"}

\* C14: GAHBCFG.GINTMSK is clear in every state where the pump is inside
\* otg_txfifo_handler, and once the pump has moved on from the fill the bit
\* is set whenever the driver is ready.
C14_GintmskClearDuringFill ==
  /\ InFill => "GINTMSK" \notin GAHBCFG
  /\ state = "USB_READY" /\ pump.pc \notin {"fill", "push", "end"} =>
       "GINTMSK" \in GAHBCFG

\* The pump thread is suspended in chSchGoSleepS.
Suspended == pump.pc = "sleeping"

\* The pump, when suspended, is recorded in thd_wait; in a ready driver no
\* endpoint is pending then, and receive data that waits in the RX FIFO has
\* its interrupt enabled.
WakeupAhead ==
  Suspended =>
    /\ thd_wait = PumpThread
    /\ state = "USB_READY" => txpending = {}
    /\ state = "USB_READY" /\ "RXFLVL" \in GINTSTS =>
         "RXFLVLM" \in GINTMSK /\ "GINTMSK" \in GAHBCFG

\* C15: the pump suspends only in a step in which the driver is stopped or
\* there is neither a pending endpoint nor receive data, and which records
\* the thread in thd_wait; hence it is never suspended with thd_wait unset,
\* and never suspended in a ready driver with an endpoint pending or with
\* receive data whose interrupt is disabled (no lost wake-up).
C15_NoLostWakeup ==
  [][/\ Suspended' /\ ~Suspended => PumpIdle /\ thd_wait' = PumpThread
     /\ WakeupAhead']_vars

\* The pump is suspended in a ready driver, receive data has arrived since
\* and the interrupt that resumes the pump is about to be served.
C15_Witness ==
  /\ Suspended
  /\ state = "USB_READY"
  /\ "RXFLVL" \in GINTSTS
  /\ thd_wait = PumpThread
  /\ pump.ep = USB_MAX_ENDPOINTS

\* C16: the pump becomes suspended only from the test at the top of its
\* loop, and while it is suspended no FIFO sequence is in flight: it never
\* sleeps in the middle of a drain of the RX FIFO or of a fill.
C16_SuspendsOnlyAtLoopTop ==
  [][/\ Suspended' /\ ~Suspended => pump.pc = "check"
     /\ Suspended' => fifoBusy' = {} /\ pump'.sts = NULL]_vars

\* The pump sleeps after a pass in which a fill was left not done.
C16_Witness ==
  /\ Suspended
  /\ pump.ep = USB_MAX_ENDPOINTS
  /\ pump.res[TxEp] = "notdone"
  /\ TxUnfinished(TxEp)

\* C17: thd_wait is set only while the pump thread is suspended or was
\* created and has not run yet; a resume by the interrupt handler clears
\* thd_wait in the same step, and no suspension is resumed twice.
C17_OneShotWakeup ==
  [][/\ thd_wait' # NULL => pump'.pc \in {"created", "sleeping"}
     /\ pump'.resumes > pump.resumes => thd_wait # NULL /\ thd_wait' = NULL
     /\ pump'.resumes <= 1]_vars

\* The pump was resumed once and has not run yet, and the interrupt handler
\* has served both a FIFO empty event and receive data since the pump went
\* to sleep in the ready driver.
C17_Witness ==
  /\ pump.pc = "woken"
  /\ pump.resumes = 1
  /\ thd_wait = NULL
  /\ state = "USB_READY"
  /\ ncycle = 0
  /\ TxEp \in txpending
  /\ "RXFLVL" \in GINTSTS
  /\ "RXFLVLM" \notin GINTMSK

\* C18: no execution of the interrupt handler, its IN and OUT endpoint
\* handlers included, pushes to or pops from a FIFO or changes the counters
\* of a transfer.
C18_IsrLeavesFifosAlone ==
  [][OTG1_IRQ =>
       /\ fifoBusy' = fifoBusy
       /\ pushes' = pushes
       /\ rxq' = rxq
       /\ in_state' = in_state
       /\ out_state' = out_state
       /\ <<oq, iq, rxmem, setup_buf>>' = <<oq, iq, rxmem, setup_buf>>]_vars

\* The interrupt handler has served the completion of a transmission and of
\* a reception whose bytes the pump had moved.
C18_Witness ==
  /\ inCb # <<>>
  /\ outCb # <<>>
  /\ in_state[TxEp].txcnt > 0
  /\ out_state[0].rxcnt > 0

\* C19 (as stated): every read and write of txpending, of the transfer
\* counters and of thd_wait by the interrupt handler and by the pump is
\* made inside the kernel critical section.
C19_AllAccessesLocked == \A a \in acc : a.locked

\* C19 (amended): every write of txpending and of thd_wait by the interrupt
\* handler and by the pump is made inside the kernel critical section, and
\* the transfer counters are accessed by the pump only.
C19_WritesLocked ==
  \A a \in acc :
    /\ a.var \in {"txpending", "thd_wait"} /\ a.op = "write" => a.locked
    /\ a.var \in {"txcnt", "rxcnt"} => a.by = "pump"

\* The interrupt handler has just flagged an endpoint and resumed the pump.
C19_Witness ==
  /\ Acc("isr", "txpending", "write", TRUE) \in acc
  /\ Acc("isr", "thd_wait", "write", TRUE) \in acc
  /\ pump.pc = "woken"

\* C22: the pump enters otg_txfifo_handler for an endpoint only from the
\* critical section that clears the endpoint's txpending bit, and the step
\* after the return re-arms the endpoint, by enabling its FIFO empty
\* interrupt in DIEPEMPMSK, if and only if FALSE (not done) was returned;
\* that step leaves txpending as it is.
C22_ClearFillRearm ==
  [][/\ pump'.pc = "fill" /\ pump.pc # "fill" =>
          /\ pump.pc \in {"begin", "push"}
          /\ pump.pc = "begin" => pump.ep \notin txpending'
     /\ pump.pc = "end" /\ pump'.pc # "end" =>
          /\ pump.res[pump.ep] = IF pump.done THEN "done" ELSE "notdone"
          /\ DIEPEMPMSK' = IF pump.done THEN DIEPEMPMSK
                                        ELSE DIEPEMPMSK \cup {pump.ep}
          /\ txpending' = txpending]_vars

\* The pump has just left an endpoint whose fill returned FALSE: the FIFO
\* empty interrupt is enabled again and the endpoint is not pending.
C22_Witness ==
  /\ pump.pc = "rx"
  /\ pump.ep = TxEp + 1
  /\ pump.res[TxEp] = "notdone"
  /\ TxEp \in DIEPEMPMSK
  /\ TxEp \notin txpending
  /\ "GINTMSK" \in GAHBCFG
  /\ ncycle = 0

\* C23: an interrupt taken for RXFLVL disables that source in GINTMSK, and
\* resumes the pump (and clears thd_wait) if thd_wait is set and leaves the
\* pump alone otherwise; the source becomes enabled again only in the step
\* in which the pump suspends itself, so that it is disabled, and no
\* interrupt is taken for RXFLVL, from then on while the pump runs.
C23_RxflvlMaskedWhilePumpRuns ==
  [][/\ OTG1_IRQ /\ "RXFLVL" \in IrqSts =>
          /\ "RXFLVLM" \notin GINTMSK'
          /\ thd_wait # NULL =>
               thd_wait' = NULL /\ pump'.resumes = pump.resumes + 1
          /\ thd_wait = NULL => pump' = pump /\ thd_wait' = NULL
     /\ "RXFLVLM" \in GINTMSK' /\ "RXFLVLM" \notin GINTMSK =>
          Suspended' /\ ~Suspended
     /\ "RXFLVLM" \notin GINTMSK /\ ~Suspended' => "RXFLVL" \notin IrqSts']_vars

\* The interrupt for RXFLVL was just taken while the pump was at work on a
\* pending endpoint: the source is disabled and nobody was resumed.
C23_Witness ==
  /\ acc = {Acc("isr", "thd_wait", "read", FALSE)}
  /\ "RXFLVL" \in GINTSTS
  /\ "RXFLVLM" \notin GINTMSK
  /\ pump.pc = "begin"
  /\ thd_wait = NULL
  /\ ncycle = 0

TxComplete(ep) ==
  /\ fillret # NULL
  /\ Deref(fillret).ep = ep
  /\ Deref(fillret).done
  /\ in_state[ep].txcnt = in_state[ep].txsize
  /\ SumN(pushes[ep]) = in_state[ep].txsize

C26_PendingExcludesEnabled ==
  \A ep \in Endpoints : ~(ep \in txpending /\ ep \in DIEPEMPMSK)

\* C26 (amended): the step that sets the txpending bit of an endpoint
\* disables the endpoint's FIFO empty interrupt in DIEPEMPMSK and leaves
\* thd_wait NULL, the pump resumed if it was waiting; and both bits of an
\* endpoint become set only by usb_lld_start_in of a prepared transfer
\* while the txpending bit set for the transfer before has not been
\* cleared by the pump: never by the interrupt handler and never by the
\* pump.
C26_BothOnlyByStartIn ==
  [][\A ep \in Endpoints :
       /\ ep \in txpending' /\ ep \notin txpending =>
            /\ ep \notin DIEPEMPMSK'
            /\ thd_wait' = NULL
            /\ thd_wait # NULL => pump'.resumes = pump.resumes + 1
       /\ (ep \in txpending' /\ ep \in DIEPEMPMSK')
             /\ ~(ep \in txpending /\ ep \in DIEPEMPMSK) =>
            /\ ep \in txpending
            /\ xfer[ep] = "prepared"
            /\ xfer'[ep] = "started"]_vars

\* A transfer of 64 bytes was started while the txpending bit set for the
\* transfer of zero bytes before it was still set.
C26_Witness ==
  /\ TxEp \in txpending
  /\ TxEp \in DIEPEMPMSK
  /\ xfer[TxEp] = "started"
  /\ in_state[TxEp].txsize = 64
  /\ in_state[TxEp].txcnt = 0
  /\ Len(inCb) = 1

(***************************************************************************)
(* Properties of the allocator over stops and starts.                      *)
(***************************************************************************)
\* No endpoint has been activated since the driver was started.
NoEndpointActive ==
  \A ep \in Endpoints : ~DIEPCTL[ep].USBAEP /\ ~DOEPCTL[ep].USBAEP

\* C20 (as stated): after a stop and start of the driver pmnext equals the
\* fixed base as long as no endpoint is configured, and while the driver
\* stays started pmnext never decreases.
C20_BaseAfterRestart ==
  [][/\ (state = "USB_READY" /\ ncycle >= 1 /\ NoEndpointActive)' =>
          pmnext' = otg_ram_reset
     /\ state = "USB_READY" /\ state' = "USB_READY" => pmnext' >= pmnext]_vars

\* C20 (amended): a stop or a start of the driver leaves pmnext as it is;
\* pmnext changes only while the driver is started, and then it either
\* grows, or is set to the fixed base (usb_lld_disable_endpoints), or to
\* the fixed base plus the words of the TX FIFO of endpoint 0
\* (usb_lld_reset).
C20_ResetOnlyByRamReset ==
  [][pmnext' # pmnext =>
       /\ state = "USB_READY" /\ state' = "USB_READY"
       /\ \/ pmnext' > pmnext
          \/ pmnext' = otg_ram_reset
          \/ pmnext' = otg_ram_reset + ep0config.in_maxsize \div 4]_vars

\* The driver was stopped and started again, no endpoint is active, and
\* pmnext still holds what the endpoints of the activation before took.
C20_Witness ==
  /\ state = "USB_READY"
  /\ ncycle >= 1
  /\ NoEndpointActive
  /\ pmnext > otg_ram_reset + ep0config.in_maxsize \div 4

(***************************************************************************)
(* The base priority of the CPU around the push of a packet.               *)
(***************************************************************************)
\* C38, as stated: on every return from otg_txfifo_handler, the done one
\* and the not-done one, the base priority the handler raised before a
\* push is back to 0.
C38_BasepriRestoredOnReturn == pump.pc = "end" => pump.basepri = 0

\* C38, what holds: the handler returns with the base priority as its last
\* push left it, raised after a push from a linear buffer, and the pump's
\* own critical section after the fill is what brings it back to 0.
C38_BasepriRaisedOnlyInFill ==
  pump.basepri # 0 => pump.pc \in {"push", "fill", "end"}

\* C38: the handler that pushed no packet returns with the base priority
\* it was called with.
C38_NoPushNoRaise ==
  pump.pc = "end" /\ pushes[pump.ep] = <<>> => pump.basepri = 0

(***************************************************************************)
(* The stop of the driver while the pump thread is at work.                *)
(***************************************************************************)
\* C39, as stated: from the return of usb_lld_stop to the next usb_lld_start
\* the global interrupt enable bit GAHBCFG.GINTMSK is clear, wherever the
\* pump was when usb_lld_stop ran.
C39_GintmskClearWhileStopped ==
  state = "USB_STOP" => "GINTMSK" \notin GAHBCFG

\* C39, what holds: usb_lld_stop clears the bit, and while the driver is
\* stopped only the end of a fill that was in progress sets it again.
C39_SetOnlyByEndOfFill ==
  [][/\ state = "USB_STOP" /\ state' = "USB_STOP"
     /\ "GINTMSK" \notin GAHBCFG /\ "GINTMSK" \in GAHBCFG'
     => pump.pc = "end" /\ pump'.pc # "end"]_vars

\* C39: right after usb_lld_stop the bit is clear.
C39_StopClears ==
  [][state = "USB_READY" /\ state' = "USB_STOP" => GAHBCFG' = {}]_vars

\* C40, as stated: while the driver state is USB_STOP the pump thread takes
\* no status entry and no data from the RX FIFO and pushes no packet to a
\* TX FIFO.
C40_NoFifoAccessWhileStopped ==
  [][state = "USB_STOP" => ~(PumpPop \/ PumpPush)]_vars

\* C40, what holds: a pump that reaches the top of its loop while the
\* driver is stopped suspends itself with thd_wait recorded, whatever is
\* pending.
C40_StoppedSuspendsAtLoopTop ==
  [][state = "USB_STOP" /\ pump.pc = "check" /\ pump'.pc # "check"
     => pump'.pc = "sleeping" /\ thd_wait' = PumpThread]_vars

\* C40: the FIFO accesses of a stopped driver belong to a pass that began
\* before the stop or with a wake-up, never to one begun at the loop top.
C40_NoPassBegunAtLoopTopWhileStopped ==
  [][state = "USB_STOP" /\ pump'.pc = "rx" /\ pump'.ep = 0
     => pump.pc \in {"woken", "pop"} \/ UNCHANGED pump]_vars

\* The pump thread is run in the end whenever it is ready to run, over
\* stops and starts of the driver.
SpecStopFair == SpecPump /\ WF_vars(PumpStep)

\* C40: a pump thread that is run in the end is suspended in the end with
\* thd_wait recorded, unless the driver is started again.
C40_SuspendsAfterStop ==
  state = "USB_STOP" ~>
    (\/ state = "USB_READY"
     \/ pump.pc \in {"sleeping", "created"} /\ thd_wait = PumpThread)

====
